---- MODULE Spec2Model ----
(***************************************************************************)
(* SigmaTest (sigma-test): the registry, the runner state machine of       *)
(* run_tests, the assertion / abort control flow, the fuzz engine and the  *)
(* hook resolution, modelled from src/src/sigtest.c.                        *)
(*                                                                         *)
(* Sets are kept in registration order: sets[i] is the i-th set registered,*)
(* its `next` pointer is i-1 and the registry head (test_sets) is          *)
(* Len(sets).  A case is addressed by its set and its position in the      *)
(* set's case list; 0 stands for the NULL pointer.                         *)
(***************************************************************************)
EXTENDS Integers, Sequences, FiniteSets, TLC

VARIABLES
  sets,             \* the registry: st_set_s records, in registration order
  current_set,      \* static TestSet current_set
  hook_registry,    \* static HookRegistry *hook_registry, head first
  current_hooks,    \* static ST_Hooks current_hooks
  hookTab,          \* the callback table and context of every bundle
  running,          \* TRUE while control is inside run_tests
  state,            \* RunnerState state (local of run_tests)
  sets_arg,         \* TestSet sets (argument of run_tests)
  test_hooks,       \* ST_Hooks test_hooks (argument of run_tests)
  hooks,            \* ST_Hooks hooks (local of run_tests)
  current_set_iter, \* TestSet current_set_iter
  current_tc_iter,  \* TestCase current_tc_iter
  tc,               \* TestCase tc
  counters,         \* tc_total, tc_passed, tc_failed, tc_skipped, total_tests, total_sets
  set_sequence,     \* int set_sequence
  retval,           \* what run_tests returned
  jmpbuffer,        \* static jmp_buf jmpbuffer: the catch point it holds
  mem,              \* global_allocs, global_frees, _sigtest_alloc_count, _sigtest_free_count
                    \* and the context of the memcheck bundle
  runs,             \* number of calls of run_tests so far
  log               \* history: the observable calls, in order

vars == <<sets, current_set, hook_registry, current_hooks, hookTab, running, state,
          sets_arg, test_hooks, hooks, current_set_iter, current_tc_iter, tc,
          counters, set_sequence, retval, jmpbuffer, mem, runs, log>>

regVars == <<sets, current_set, hook_registry, current_hooks, hookTab>>
argVars == <<sets_arg, test_hooks>>
runVars == <<running, state, sets_arg, test_hooks, hooks, current_set_iter,
             current_tc_iter, tc, counters, set_sequence, retval, jmpbuffer, mem, runs, log>>

(***************************************************************************)
(* Bounds of the model.                                                    *)
(***************************************************************************)
MaxSets == 2
MaxCases == 2
MaxRuns == 2
MaxHookRegs == 2
MaxMemCalls == 3
MaxMemRuns == 1
MaxFailedAllocs == 2
MaxLookups == 2

NULL == "NULL"
\* the value of a pointer field that was never written after malloc
GARBAGE == "GARBAGE"

PASS == "PASS"
FAIL == "FAIL"
SKIP == "SKIP"

(***************************************************************************)
(* Messages (string literals of sigtest.c).                                *)
(***************************************************************************)
INT_MAX == 2147483647
INT_MIN == -INT_MAX - 1

MESSAGE_TRUE_FAIL == "Expected true, but was false"
MSG_EXPLICIT_FAIL == "Explicit failure triggered"
MSG_EXPLICIT_THROW == "Explicit throw triggered"
MSG_SKIPPED == "Testcase skipped"
MSG_EXPECT_FAIL_OCCURRED == "Expected failure occurred"
MSG_EXPECT_FAIL_PASSED == "Expected failure but passed"
MSG_EXPECT_THROW_OCCURRED == "Expected throw occurred"
MSG_EXPECT_THROW_PASSED == "Expected throw but passed"
MESSAGE_EQUAL_FAIL(exp_str, act_str) == "Expected " \o exp_str \o ", but was " \o act_str
MSG_USE_STRING_EQUAL == "Use Assert.stringEqual for string comparison"
MSG_UNSUPPORTED_TYPE == "Unsupported type for comparison"
MSG_INVALID_FUZZ == "Invalid FuzzType in fuzz test"
MSG_NOMEM_SET == "Failed to allocate memory for test set"
MSG_NOMEM_CASE == "Failed to allocate memory for test case"
MSG_NOMEM_ENTRY == "Error: Failed to allocate hook registry entry"
MSG_NOMEM_HOOKS == "Error: Failed to allocate memory for hooks"
AllocDiagnostics == {MSG_NOMEM_SET, MSG_NOMEM_CASE, MSG_NOMEM_ENTRY, MSG_NOMEM_HOOKS}

(***************************************************************************)
(* Assertions.  A test body is a script: the sequence of assertion calls   *)
(* it makes when nothing stops it.  AssertOutcome is the (result, message) *)
(* pair the assertion hands to set_test_context.                           *)
(***************************************************************************)
Asserts == {"isTrue_ok", "isTrue_bad", "fail", "throw", "skip"}

\* the type tags the comparisons are modelled for, and a tag outside the enum
AssertTypes == {"INT", "LONG", "FLOAT", "DOUBLE", "CHAR", "PTR", "STRING"}
TYPE_INVALID == "TYPE_INVALID"
\* the values the compared objects point to (for PTR: the pointers themselves).
\* Read as a float or a double, the value v is v * EPSILON, and NAN is a NaN.
NAN == INT_MAX
Ints == {INT_MIN, -1, 0, 5, 6, 15, NAN}
\* FLT_EPSILON and DBL_EPSILON, in the unit of the float and double values
EPSILON == 1
\* fabs(expected - actual): a NaN when an operand is one
Fabs(expected, actual) ==
  IF expected = NAN \/ actual = NAN THEN NAN
  ELSE IF expected >= actual THEN expected - actual ELSE actual - expected
\* the fmt argument of an assertion: none, or a text without conversions
Fmts == {NULL, "values differ"}

\* format_msg: vsnprintf of fmt into a buffer of 256 characters
format_msg(fmt) == IF Len(fmt) > 255 THEN SubSeq(fmt, 1, 255) ELSE fmt

\* strncat(dest, src, 256 - strlen(dest) - 1)
Strncat(dest, src) ==
  IF Len(src) > 255 - Len(dest)
  THEN dest \o SubSeq(src, 1, 255 - Len(dest))
  ELSE dest \o src

\* a message that prints the expected value twice
gen_equals_fail_msg_of_expected(expected, actual, type, fmt) ==
  MESSAGE_EQUAL_FAIL(ToString(expected), ToString(expected))

\* gen_equals_fail_msg: "%d" of both values for INT; there is no case LONG.  For
\* FLOAT, DOUBLE, CHAR and PTR the text of a value is named by its conversion
\* ("%.5f", "%c", "%p"), not computed.
gen_equals_fail_msg(expected, actual, type, fmt) ==
  IF type \in {"INT", "FLOAT", "DOUBLE", "CHAR", "PTR"}
  THEN LET conv == CASE type = "INT" -> ""
                     [] type \in {"FLOAT", "DOUBLE"} -> "%.5f of "
                     [] type = "CHAR" -> "%c of "
                     [] type = "PTR" -> "%p of "
           user_msg == IF fmt # NULL THEN format_msg(fmt) ELSE ""
           msg_buffer == MESSAGE_EQUAL_FAIL(conv \o ToString(expected),
                                            conv \o ToString(actual))
       IN IF user_msg # ""
          THEN Strncat(Strncat(msg_buffer, "\n    - "), user_msg)
          ELSE msg_buffer
  ELSE MSG_UNSUPPORTED_TYPE

\* an areEqual that passes when it does not know the type
assert_are_equal_lenient(expected, actual, type, fmt) ==
  CASE type \in {"INT", "LONG"} ->
         IF expected # actual
         THEN [state |-> FAIL, message |-> gen_equals_fail_msg(expected, actual, type, fmt)]
         ELSE [state |-> PASS, message |-> NULL]
    [] OTHER -> [state |-> PASS, message |-> NULL]

\* assert_are_equal: the (result, failMessage) pair it hands to set_test_context
assert_are_equal(expected, actual, type, fmt) ==
  CASE type \in {"INT", "LONG", "CHAR", "PTR"} ->
         IF expected # actual
         THEN [state |-> FAIL, message |-> gen_equals_fail_msg(expected, actual, type, fmt)]
         ELSE [state |-> PASS, message |-> NULL]
    [] type \in {"FLOAT", "DOUBLE"} ->
         \* fabs(...) > EPSILON: false for a NaN
         IF Fabs(expected, actual) # NAN /\ Fabs(expected, actual) > EPSILON
         THEN [state |-> FAIL, message |-> gen_equals_fail_msg(expected, actual, type, fmt)]
         ELSE [state |-> PASS, message |-> NULL]
    [] type = "STRING" -> [state |-> FAIL, message |-> MSG_USE_STRING_EQUAL]
    [] OTHER -> [state |-> FAIL, message |-> MSG_UNSUPPORTED_TYPE]

\* assert_are_not_equal: its switch has no case LONG
assert_are_not_equal(expected, actual, type, fmt) ==
  CASE type \in {"INT", "CHAR", "PTR"} ->
         IF expected = actual
         THEN [state |-> FAIL, message |-> gen_equals_fail_msg(expected, actual, type, fmt)]
         ELSE [state |-> PASS, message |-> NULL]
    [] type \in {"FLOAT", "DOUBLE"} ->
         \* fabs(...) <= EPSILON: false for a NaN
         IF Fabs(expected, actual) # NAN /\ Fabs(expected, actual) <= EPSILON
         THEN [state |-> FAIL, message |-> gen_equals_fail_msg(expected, actual, type, fmt)]
         ELSE [state |-> PASS, message |-> NULL]
    [] type = "STRING" -> [state |-> FAIL, message |-> MSG_USE_STRING_EQUAL]
    [] OTHER -> [state |-> FAIL, message |-> MSG_UNSUPPORTED_TYPE]

\* A comparison in a body is the statement Assert.areEqual(&expected, &actual, type,
\* fmt) or Assert.areNotEqual(...); the script holds its text.
Compares == {"areEqual", "areNotEqual"}
Calls == [op : Compares, expected : Ints, actual : Ints,
          type : AssertTypes \cup {TYPE_INVALID}, fmt : Fmts]
CallText(c) ==
  c.op \o "(" \o ToString(c.expected) \o ", " \o ToString(c.actual) \o ", " \o c.type
       \o (IF c.fmt = NULL THEN "" ELSE ", " \o c.fmt) \o ")"
Call(op, expected, actual, type, fmt) ==
  CallText([op |-> op, expected |-> expected, actual |-> actual, type |-> type,
            fmt |-> fmt])
CallTexts == {CallText(c) : c \in Calls}
CallOf == [t \in CallTexts |-> CHOOSE c \in Calls : CallText(c) = t]

CompareOutcome(c) ==
  IF c.op = "areEqual"
  THEN assert_are_equal(c.expected, c.actual, c.type, c.fmt)
  ELSE assert_are_not_equal(c.expected, c.actual, c.type, c.fmt)

AssertOutcome(a) ==
  CASE a \in CallTexts  -> CompareOutcome(CallOf[a])
    [] a = "isTrue_ok"  -> [state |-> PASS, message |-> NULL]
    [] a = "isTrue_bad" -> [state |-> FAIL, message |-> MESSAGE_TRUE_FAIL]
    [] a = "fail"       -> [state |-> FAIL, message |-> MSG_EXPLICIT_FAIL]
    [] a = "throw"      -> [state |-> FAIL, message |-> MSG_EXPLICIT_THROW]
    [] a = "skip"       -> [state |-> SKIP, message |-> MSG_SKIPPED]

\* set_test_context: the result written into the current case ...
SetResult(res, out) == [state |-> out.state, message |-> out.message]

\* a set_test_context that lets a skipped body run on
JumpsOnFailOnly(result) == result = FAIL

\* ... and whether it then leaves the body through longjmp(jmpbuffer, 1)
Jumps(result) == result # PASS

\* The statements of a script run in order from statement i; res is the result
\* held by the case, n the number of statements executed so far.
RECURSIVE RunScript(_, _, _, _)
RunScript(script, i, res, n) ==
  IF i > Len(script)
  THEN [res |-> res, executed |-> n, jumped |-> FALSE]
  ELSE LET out == AssertOutcome(script[i])
           new == SetResult(res, out)
       IN IF Jumps(out.state)
          THEN [res |-> new, executed |-> n + 1, jumped |-> TRUE]
          ELSE RunScript(script, i + 1, new, n + 1)

\* The test bodies the registered cases are drawn from.
Bodies == { <<>>,
            <<"isTrue_ok">>,
            <<"isTrue_bad", "isTrue_ok">>,
            <<"skip", "isTrue_bad">>,
            <<"isTrue_ok", "throw", "skip">> }

(***************************************************************************)
(* Fuzz datasets (fuzzing.h).  A fuzz body is given by the set of dataset  *)
(* positions on which its assertion fails; on every other position its     *)
(* assertion passes.                                                       *)
(***************************************************************************)
fuzz_int_values == << INT_MIN, INT_MIN + 1, -1, 0, 1, INT_MAX - 1, INT_MAX >>
\* size_t and float values do not fit the model's integers: they are kept by name
fuzz_size_t_values == << "0", "1", "SIZE_MAX / 2", "SIZE_MAX - 1", "SIZE_MAX" >>
fuzz_float_values == << "-INFINITY", "-FLT_MAX", "-1.0", "-0.0", "0.0", "1.0", "FLT_MAX",
                        "INFINITY", "NAN", "FLT_MIN", "-FLT_MIN" >>
SCHAR_MAX == 127
SCHAR_MIN == -SCHAR_MAX - 1
fuzz_byte_values == << SCHAR_MIN, -1, 0, 1, SCHAR_MAX >>

FuzzTypes == {"FUZZ_INT", "FUZZ_SIZE_T", "FUZZ_FLOAT", "FUZZ_BYTE"}
\* a tag outside the FuzzType enum
FUZZ_INVALID == "FUZZ_INVALID"

\* the dataset selected by the switch of FUZZING_INIT
Dataset(type) ==
  CASE type = "FUZZ_INT"    -> fuzz_int_values
    [] type = "FUZZ_SIZE_T" -> fuzz_size_t_values
    [] type = "FUZZ_FLOAT"  -> fuzz_float_values
    [] type = "FUZZ_BYTE"   -> fuzz_byte_values

FuzzFuncs == { {}, {1}, {2, 5}, {7}, 1..11 }

\* a summary that reports the failed iterations where the passed ones belong
FuzzSummaryOfFailed(count, failed_count) ==
  ToString(failed_count) \o " of " \o ToString(count) \o " fuzz iterations passed"

\* "%ld of %zu fuzz iterations passed"
FuzzSummary(count, failed_count) ==
  ToString(count - failed_count) \o " of " \o ToString(count) \o " fuzz iterations passed"

\* the catch point setjmp stores in jmpbuffer in iteration i of execute_fuzzing
FuzzCatchPoint(s, c, i) == [frame |-> "execute_fuzzing", set |-> s, case |-> c, iter |-> i]

\* a loop that a failing iteration ends
FuzzStopAtFailure(i, count, jumped) == IF jumped THEN count + 1 ELSE i + 1

\* the iteration that follows iteration i (the for loop's ++i)
FuzzAdvance(i, count, jumped) == i + 1

\* execute_fuzzing's loop from iteration i on.  acc holds the case's result, the
\* failure count, the content of jmpbuffer and the trace of the loop: the body
\* calls and, for an abort, the iteration whose catch point received it.
RECURSIVE FuzzLoop(_, _, _, _)
FuzzLoop(i, count, failset, acc) ==
  IF i > count
  THEN acc
  ELSE LET jb   == FuzzCatchPoint(acc.jb.set, acc.jb.case, i)
           out  == AssertOutcome(IF i \in failset THEN "isTrue_bad" ELSE "isTrue_ok")
           res1 == SetResult(acc.res, out)
           jump == Jumps(out.state)
       IN FuzzLoop(FuzzAdvance(i, count, jump), count, failset,
            [res          |-> IF jump THEN [res1 EXCEPT !.message = NULL] ELSE res1,
             failed_count |-> IF jump THEN acc.failed_count + 1 ELSE acc.failed_count,
             jb           |-> jb,
             trace        |-> acc.trace \o <<<<"fuzz_body", i>>>>
                                \o (IF jump THEN <<<<"caught", jb.iter>>>> ELSE <<>>)])

\* the final result of the fuzz case (end of execute_fuzzing)
FuzzFinal(count, failed_count) ==
  IF failed_count = 0
  THEN [state |-> PASS, message |-> NULL]
  ELSE [state |-> FAIL, message |-> FuzzSummary(count, failed_count)]

(***************************************************************************)
(* Hook bundles.  A bundle is a callback table and a context pointer; a    *)
(* callback is unset ("null"), set by the bundle's author ("user") or one  *)
(* of the built-in defaults ("default").                                   *)
(***************************************************************************)
Callbacks == {"before_set", "after_set", "before_test", "after_test", "on_start_test",
              "on_end_test", "on_error", "on_test_result", "on_memory_alloc",
              "on_memory_free", "on_set_summary", "on_debug_log"}

Table(user, dflt) ==
  [c \in Callbacks |-> IF c \in user THEN "user" ELSE IF c \in dflt THEN "default" ELSE "null"]

\* static const st_hooks_s default_hooks
default_hooks ==
  [cb |-> Table({}, {"before_test", "on_start_test", "on_end_test", "after_test",
                     "on_error", "on_test_result", "on_debug_log"}),
   context |-> "default_ctx", logger |-> NULL, name |-> "default"]

\* struct st_hooks_s json_hooks, its context set by the registering test
json_hooks ==
  [cb |-> Table({"before_set", "after_set", "before_test", "after_test", "on_start_test",
                 "on_end_test", "on_error", "on_test_result", "on_set_summary"}, {}),
   context |-> "json_ctx", logger |-> NULL, name |-> "json"]

\* struct st_hooks_s junit_hooks, its context set by the registering test
junit_hooks ==
  [cb |-> Table({"before_set", "after_set", "on_start_test", "on_test_result",
                 "on_set_summary"}, {}),
   context |-> "junit_ctx", logger |-> NULL, name |-> "junit"]

\* the bundle init_hooks allocates for a name that is not in the registry: every
\* callback and the context are NULL
new_hooks(name) ==
  [cb |-> Table({}, {}), context |-> NULL, logger |-> NULL, name |-> name]

\* struct st_hooks_s memcheck_hooks as memcheck_init registers it: the context
\* allocated, on_test_result the built-in one, tracking not enabled
memcheck_hooks ==
  [cb |-> Table({"before_set", "after_set", "on_end_test", "on_memory_alloc",
                 "on_memory_free"}, {"on_test_result"}),
   context |-> "memcheck_ctx", logger |-> NULL, name |-> "memcheck"]

UserBundles == {"json", "junit"}
\* "named" is a bundle main obtained from init_hooks("mine") before it registers
\* anything; "fresh" is the bundle the next allocating call of init_hooks returns
NamedBundles == {"named"}
FreshBundles == {"fresh"}
MemBundles == {"memcheck"}
Bundles == UserBundles \cup NamedBundles \cup FreshBundles \cup MemBundles \cup {"default"}

\* the callbacks the state handlers of run_tests invoke on the resolved bundle
RunnerCallbacks == {"before_set", "after_set", "before_test", "after_test",
                    "on_start_test", "on_end_test", "on_test_result", "on_set_summary"}

\* the callbacks runner_init back-fills with the built-in defaults
BackFilled == {"before_test", "after_test", "on_start_test", "on_end_test", "on_error",
               "on_test_result"}

\* a back-fill that installs the defaults whether or not the callback is set
BackFillOverwriting(entry) ==
  [entry EXCEPT !.cb = [c \in Callbacks |->
       IF c \in BackFilled THEN "default" ELSE entry.cb[c]]]

BackFill(entry) ==
  [entry EXCEPT !.cb = [c \in Callbacks |->
       IF c \in BackFilled /\ entry.cb[c] = "null" THEN "default" ELSE entry.cb[c]]]

(***************************************************************************)
(* Registry records.                                                       *)
(***************************************************************************)
\* create_testcase, then the fields the registration call sets
NewCase(expect_fail, expect_throw, is_fuzz, fuzz_type, test, fuzz) ==
  [expect_fail |-> expect_fail, expect_throw |-> expect_throw, is_fuzz |-> is_fuzz,
   fuzz_type |-> fuzz_type, test |-> test, fuzz |-> fuzz, has_next |-> FALSE,
   result |-> [state |-> PASS, message |-> NULL]]

\* testset: the fields it writes; hooks and tc_info are left as malloc returned them
\* a pointer to a case is the case's position in its set, 0 for NULL; one that was
\* never written is NULL or points to no case of the set
WILD == -1
UninitCase(uninit) == IF uninit = NULL THEN 0 ELSE WILD

NewSet(cleanup, uninit) ==
  [cases |-> <<>>, count |-> 0, passed |-> 0, failed |-> 0, skipped |-> 0, current |-> 0,
   hooks |-> uninit, tc_info |-> UninitCase(uninit), setup |-> FALSE, teardown |-> FALSE,
   setup_asserts |-> FALSE, cleanup |-> cleanup, logger |-> NULL]

\* what a pointer field that was never written can hold
Uninit == {NULL, GARBAGE}

RECURSIVE TotalCases(_)
TotalCases(ss) == IF ss = <<>> THEN 0 ELSE Len(Head(ss).cases) + TotalCases(Tail(ss))

\* main is still registering: no run was started and the process did not exit
Registering == ~running /\ runs = 0 /\ state # "EXITED"

\* one entry of the history: the handler or callback ev, issued in run `run` for
\* set s and case c through bundle h, with a number and a result where it has one
Event(ev, s, c, h, arg, res) ==
  [run |-> runs, ev |-> ev, set |-> s, case |-> c, h |-> h, arg |-> arg,
   st |-> res.state, msg |-> res.message]

NoRes == [state |-> "", message |-> ""]

\* what __real_malloc returns when it succeeds
Blocks == {"block"}
\* the size the bodies of test_mallocs.c ask for
Sizes == {100}
\* blocks told apart, and a block that was allocated before the run
Addresses == {"p1", "p2"}
Old == "old"
\* the sizes of the allocations the ledger records
LedgerSizes == {16, 100}

\* the registration calls whose bookkeeping allocation failed
FailedAllocs == {k \in DOMAIN log : log[k].msg \in AllocDiagnostics}

\* a registration call prints a diagnostic for its failed allocation; exits tells
\* whether it then calls exit(EXIT_FAILURE) or returns to its caller
AllocFailure(call, diagnostic, exits) ==
  /\ Cardinality(FailedAllocs) < MaxFailedAllocs
  /\ state' = IF exits THEN "EXITED" ELSE state
  /\ log' = Append(log, Event(call, 0, 0, NULL, 0,
                              [state |-> IF exits THEN "exit" ELSE "return",
                               message |-> diagnostic]))
  /\ UNCHANGED <<sets, current_set, hook_registry, current_hooks, hookTab, running,
                 sets_arg, test_hooks, hooks, current_set_iter, current_tc_iter, tc,
                 counters, set_sequence, retval, jmpbuffer, mem, runs>>

(***************************************************************************)
(* Registration calls.                                                     *)
(***************************************************************************)
\* mallocs are the values __real_malloc may return for the set
testset(cleanups, mallocs) ==
  /\ Registering
  /\ Len(sets) < MaxSets
  /\ \E set \in mallocs :
        IF set = NULL
        THEN AllocFailure("testset", MSG_NOMEM_SET, TRUE)
        ELSE /\ \E cleanup \in cleanups, u \in Uninit :
                   sets' = Append(sets, NewSet(cleanup, u))
             /\ current_set' = Len(sets) + 1
             /\ UNCHANGED <<hook_registry, current_hooks, hookTab>>
             /\ UNCHANGED runVars

\* a registration that links the case into the list without counting it
create_testcase_uncounted(expect_fail, expect_throw, is_fuzz, fuzz_type, test, fuzz, malloc) ==
  /\ Registering
  /\ TotalCases(sets) < MaxCases
  /\ IF malloc = NULL
     THEN AllocFailure("create_testcase", MSG_NOMEM_CASE, TRUE)
     ELSE /\ \E u \in Uninit :
               LET base == IF current_set = 0 THEN Append(sets, NewSet(FALSE, u))
                                              ELSE sets
                   cs   == IF current_set = 0 THEN Len(sets) + 1 ELSE current_set
               IN /\ sets' = [base EXCEPT ![cs].cases =
                                  Append(@, NewCase(expect_fail, expect_throw, is_fuzz,
                                                    fuzz_type, test, fuzz))]
                  /\ current_set' = cs
          /\ UNCHANGED <<hook_registry, current_hooks, hookTab>>
          /\ UNCHANGED runVars

\* the common part of testcase, fail_testcase, testcase_throws and fuzz_testcase:
\* the default set is created when there is no current set, the case is appended;
\* malloc is what __real_malloc returns for the case
create_testcase(expect_fail, expect_throw, is_fuzz, fuzz_type, test, fuzz, malloc) ==
  /\ Registering
  /\ TotalCases(sets) < MaxCases
  /\ IF malloc = NULL
     THEN AllocFailure("create_testcase", MSG_NOMEM_CASE, TRUE)
     ELSE /\ \E u \in Uninit :
               LET base == IF current_set = 0 THEN Append(sets, NewSet(FALSE, u))
                                              ELSE sets
                   cs   == IF current_set = 0 THEN Len(sets) + 1 ELSE current_set
               IN /\ sets' = [base EXCEPT ![cs].cases =
                                  Append(@, NewCase(expect_fail, expect_throw, is_fuzz,
                                                    fuzz_type, test, fuzz)),
                                ![cs].count = @ + 1]
                  /\ current_set' = cs
          /\ UNCHANGED <<hook_registry, current_hooks, hookTab>>
          /\ UNCHANGED runVars

testcase(funcs, mallocs) ==
  \E f \in funcs, m \in mallocs : create_testcase(FALSE, FALSE, FALSE, NULL, f, {}, m)

fail_testcase(funcs, mallocs) ==
  \E f \in funcs, m \in mallocs : create_testcase(TRUE, FALSE, FALSE, NULL, f, {}, m)

testcase_throws(funcs, mallocs) ==
  \E f \in funcs, m \in mallocs : create_testcase(FALSE, TRUE, FALSE, NULL, f, {}, m)

fuzz_testcase(funcs, types, mallocs) ==
  \E f \in funcs, t \in types, m \in mallocs :
     create_testcase(FALSE, FALSE, TRUE, t, <<>>, f, m)

setup_testcase ==
  /\ Registering
  /\ current_set # 0
  /\ ~sets[current_set].setup
  /\ sets' = [sets EXCEPT ![current_set].setup = TRUE]
  /\ UNCHANGED <<current_set, hook_registry, current_hooks, hookTab>>
  /\ UNCHANGED runVars

\* setup_testcase(f) with a setup function f that fails an assertion
setup_testcase_asserting ==
  /\ Registering
  /\ current_set # 0
  /\ ~sets[current_set].setup
  /\ sets' = [sets EXCEPT ![current_set].setup = TRUE, ![current_set].setup_asserts = TRUE]
  /\ UNCHANGED <<current_set, hook_registry, current_hooks, hookTab>>
  /\ UNCHANGED runVars

teardown_testcase ==
  /\ Registering
  /\ current_set # 0
  /\ ~sets[current_set].teardown
  /\ sets' = [sets EXCEPT ![current_set].teardown = TRUE]
  /\ UNCHANGED <<current_set, hook_registry, current_hooks, hookTab>>
  /\ UNCHANGED runVars

\* the bundles that exist: the static ones and those init_hooks has allocated
Allocated == {b \in Bundles : hookTab[b].name # NULL}

MSG_NO_NAME == "Error: Hook name cannot be NULL or empty"

\* the calls of init_hooks made so far
Lookups == {k \in DOMAIN log : log[k].ev = "init_hooks"}

\* the loop of init_hooks over the registry from its head: the first bundle of that
\* name, NULL when there is none
RECURSIVE FindHooks(_, _)
FindHooks(registry, name) ==
  IF registry = <<>> THEN NULL
  ELSE IF hookTab[Head(registry)].name # NULL /\ hookTab[Head(registry)].name = name
       THEN Head(registry)
       ELSE FindHooks(Tail(registry), name)

\* what init_hooks returns, as a history entry
Returned_hooks(name, h) ==
  Event("init_hooks", 0, 0, h, name, [state |-> "return", message |-> ""])

\* init_hooks(name): mallocs are the values __real_malloc may return for the bundle
init_hooks(names, mallocs) ==
  /\ Registering
  /\ Cardinality(Lookups) < MaxLookups
  /\ \E name \in names, new \in mallocs :
       IF name \in {NULL, ""}
       THEN /\ log' = Append(log, Event("init_hooks", 0, 0, NULL, name,
                                        [state |-> "return", message |-> MSG_NO_NAME]))
            /\ UNCHANGED <<hookTab, state>>
       ELSE IF FindHooks(hook_registry, name) # NULL
       THEN /\ log' = Append(log, Returned_hooks(name, FindHooks(hook_registry, name)))
            /\ UNCHANGED <<hookTab, state>>
       ELSE IF new = NULL
       THEN /\ Cardinality(FailedAllocs) < MaxFailedAllocs
            /\ log' = Append(log, Event("init_hooks", 0, 0, NULL, name,
                                        [state |-> "return", message |-> MSG_NOMEM_HOOKS]))
            /\ UNCHANGED <<hookTab, state>>
       ELSE /\ hookTab["fresh"].name = NULL
            /\ hookTab' = [hookTab EXCEPT !["fresh"] = new_hooks(name)]
            /\ log' = Append(log, Returned_hooks(name, "fresh"))
            /\ UNCHANGED state
  /\ UNCHANGED <<sets, current_set, hook_registry, current_hooks, running,
                 sets_arg, test_hooks, hooks, current_set_iter, current_tc_iter, tc,
                 counters, set_sequence, retval, jmpbuffer, mem, runs>>

\* the variables of a run, but for the history
runState == <<running, state, sets_arg, test_hooks, hooks, current_set_iter,
              current_tc_iter, tc, counters, set_sequence, retval, jmpbuffer, mem, runs>>

\* a register_hooks that puts the new entry at the end of the registry
register_hooks_appending(bundles, mallocs) ==
  /\ Registering
  /\ Len(hook_registry) - 1 < MaxHookRegs
  /\ \E h \in bundles \cap Allocated, entry \in mallocs :
       IF entry = NULL
       THEN AllocFailure("register_hooks", MSG_NOMEM_ENTRY, FALSE)
       ELSE /\ hook_registry' = hook_registry \o <<h>>
            /\ current_hooks' = h
            /\ sets' = IF current_set # 0 /\ sets[current_set].hooks = NULL
                       THEN [sets EXCEPT ![current_set].hooks = h]
                       ELSE sets
            /\ log' = Append(log, Event("register_hooks", 0, 0, h, 0, NoRes))
            /\ UNCHANGED <<current_set, hookTab>>
            /\ UNCHANGED runState

\* mallocs are the values __real_malloc may return for the registry entry
register_hooks(bundles, mallocs) ==
  /\ Registering
  /\ Len(hook_registry) - 1 < MaxHookRegs
  /\ \E h \in bundles \cap Allocated, entry \in mallocs :
       IF entry = NULL
       THEN AllocFailure("register_hooks", MSG_NOMEM_ENTRY, FALSE)
       ELSE /\ hook_registry' = <<h>> \o hook_registry
            /\ current_hooks' = h
            /\ sets' = IF current_set # 0 /\ sets[current_set].hooks = NULL
                       THEN [sets EXCEPT ![current_set].hooks = h]
                       ELSE sets
            /\ log' = Append(log, Event("register_hooks", 0, 0, h, 0, NoRes))
            /\ UNCHANGED <<current_set, hookTab>>
            /\ UNCHANGED runState

(***************************************************************************)
(* The runner: run_tests and its state handlers.                           *)
(***************************************************************************)
\* the set after set i in the registry list (set->next)
NextSet(i) == i - 1

\* the case after case c of set s (tc->next)
NextCase(s, c) == IF c < Len(sets[s].cases) THEN c + 1 ELSE 0

\* hooks->context->... can be evaluated
DerefOK(h) == h \notin {NULL, GARBAGE} /\ hookTab[h].context # NULL

Has(h, c) == h \notin {NULL, GARBAGE} /\ hookTab[h].cb[c] # "null"

ZeroCounters ==
  [tc_total |-> 0, tc_passed |-> 0, tc_failed |-> 0, tc_skipped |-> 0,
   total_tests |-> 0, total_sets |-> 0]

\* the process dies (a NULL or wild pointer is dereferenced)
Crash ==
  /\ state' = "CRASH"
  /\ running' = FALSE
  /\ UNCHANGED <<sets, current_set, hook_registry, current_hooks, hookTab, sets_arg,
                 test_hooks, hooks, current_set_iter, current_tc_iter, tc, counters,
                 set_sequence, retval, jmpbuffer, mem, runs, log>>

\* run_tests is entered: its locals are initialised
run_tests(args) ==
  /\ ~running
  /\ state \notin {"CRASH", "EXITED"}
  /\ runs < MaxRuns
  /\ \E a \in args : test_hooks' = a
  /\ running' = TRUE
  /\ runs' = runs + 1
  /\ sets_arg' = Len(sets)
  /\ hooks' = NULL
  /\ current_set_iter' = Len(sets)
  /\ current_tc_iter' = 0
  /\ current_set' = 0
  /\ tc' = 0
  /\ counters' = ZeroCounters
  /\ set_sequence' = 1
  /\ retval' = "none"
  /\ state' = "RUNNER_INIT"
  /\ UNCHANGED <<sets, hook_registry, current_hooks, hookTab, jmpbuffer, mem, log>>

\* the bundle one iteration of runner_init's loop selects for set s, h being the
\* selection of the iterations before it
Select(s, h) ==
  IF test_hooks = NULL /\ sets[s].hooks = NULL
  THEN IF hook_registry # <<>> /\ Head(hook_registry) # NULL
       THEN Head(hook_registry)
       ELSE h
  ELSE IF test_hooks # NULL THEN test_hooks ELSE sets[s].hooks

\* runner_init's loop from set s on
RECURSIVE Resolve(_, _)
Resolve(s, acc) ==
  IF s = 0 \/ acc.crashed
  THEN acc
  ELSE LET h == Select(s, acc.hooks)
       IN Resolve(NextSet(s),
            [hooks |-> h, current |-> h, total_sets |-> acc.total_sets + 1,
             crashed |-> h = GARBAGE,
             tab |-> IF h \in {NULL, GARBAGE} THEN acc.tab
                     ELSE [acc.tab EXCEPT ![h] = BackFill(@)]])

runner_init ==
  /\ running /\ state = "RUNNER_INIT"
  /\ LET r == Resolve(sets_arg, [hooks |-> NULL, current |-> current_hooks,
                                 total_sets |-> 0, crashed |-> FALSE, tab |-> hookTab])
     IN IF r.crashed
        THEN Crash
        ELSE /\ hooks' = r.hooks
             /\ current_hooks' = r.current
             /\ hookTab' = r.tab
             /\ counters' = [counters EXCEPT !.total_sets = r.total_sets]
             /\ state' = "SET_LOOP"
             /\ log' = Append(log, Event("RUNNER_INIT", 0, 0, r.hooks, 0, NoRes))
             /\ UNCHANGED <<sets, current_set, hook_registry, running, sets_arg,
                            test_hooks, current_set_iter, current_tc_iter, tc,
                            set_sequence, retval, jmpbuffer, mem, runs>>

set_loop ==
  /\ running /\ state = "SET_LOOP"
  /\ IF current_set_iter = 0
     THEN /\ state' = "RUNNER_SUMMARY"
          /\ UNCHANGED <<set_sequence, current_set>>
     ELSE /\ set_sequence' = set_sequence + 1
          /\ current_set' = current_set_iter
          /\ state' = "SET_INIT"
  /\ log' = Append(log, Event("SET_LOOP", current_set_iter, 0, hooks, set_sequence, NoRes))
  /\ UNCHANGED <<sets, hook_registry, current_hooks, hookTab, running, sets_arg,
                 test_hooks, hooks, current_set_iter, current_tc_iter, tc, counters,
                 retval, jmpbuffer, mem, runs>>

\* a SET_INIT that resolves the bundle again, for the set it enters
set_init_resolving ==
  /\ running /\ state = "SET_INIT"
  /\ counters' = [counters EXCEPT !.tc_total = 0, !.tc_passed = 0, !.tc_failed = 0,
                                  !.tc_skipped = 0]
  /\ current_set' = current_set_iter
  /\ sets' = [sets EXCEPT ![current_set_iter].logger = "DebugLogger"]
  /\ hooks' = IF sets[current_set_iter].hooks \in Bundles
              THEN sets[current_set_iter].hooks ELSE hooks
  /\ state' = "BEFORE_SET"
  /\ log' = Append(log, Event("SET_INIT", current_set_iter, 0, hooks, set_sequence, NoRes))
  /\ UNCHANGED <<hook_registry, current_hooks, hookTab, running, sets_arg, test_hooks,
                 current_set_iter, current_tc_iter, tc, set_sequence, retval,
                 jmpbuffer, mem, runs>>

set_init ==
  /\ running /\ state = "SET_INIT"
  /\ counters' = [counters EXCEPT !.tc_total = 0, !.tc_passed = 0, !.tc_failed = 0,
                                  !.tc_skipped = 0]
  /\ current_set' = current_set_iter
  /\ sets' = [sets EXCEPT ![current_set_iter].logger = "DebugLogger"]
  /\ state' = "BEFORE_SET"
  /\ log' = Append(log, Event("SET_INIT", current_set_iter, 0, hooks, set_sequence, NoRes))
  /\ UNCHANGED <<hook_registry, current_hooks, hookTab, running, sets_arg, test_hooks,
                 hooks, current_set_iter, current_tc_iter, tc, set_sequence, retval,
                 jmpbuffer, mem, runs>>

(***************************************************************************)
(* The memcheck bundle (memcheck_hooks.c).  Its context holds the ledger:   *)
(* the array leaks, of which the first count records are held.  realloc is  *)
(* taken to succeed.                                                       *)
(***************************************************************************)
\* the context memcheck_init allocates
MemCheckContext ==
  [enabled |-> 0, set |-> 0, leaks |-> <<>>, count |-> 0, cap |-> 0,
   current_bytes |-> 0, peak_bytes |-> 0]

\* ctx->leaks[ctx->count] = record
Store(leaks, count, record) ==
  IF Len(leaks) > count THEN [leaks EXCEPT ![count + 1] = record]
  ELSE Append(leaks, record)

memcheck_on_alloc(ctx, size, ptr) ==
  IF ctx.enabled = 0 \/ ctx.set = 0
  THEN ctx
  ELSE [ctx EXCEPT
          !.cap = IF ctx.count >= @ THEN (IF @ # 0 THEN @ * 2 ELSE 1024) ELSE @,
          !.leaks = Store(@, ctx.count, [ptr |-> ptr, size |-> size]),
          !.current_bytes = @ + size,
          !.peak_bytes = IF ctx.current_bytes + size > @ THEN ctx.current_bytes + size
                         ELSE @,
          !.count = @ + 1]

\* the positions of the records held for ptr
Matches(ctx, ptr) == {i \in 1..ctx.count : ctx.leaks[i].ptr = ptr}

\* the first of a nonempty set of positions
First(S) == CHOOSE i \in S : \A j \in S : i <= j

\* a removal that drops the last record held instead of the matching one
RemoveLast(ctx, i) ==
  [ctx EXCEPT !.current_bytes = @ - ctx.leaks[i].size,
              !.count = @ - 1]

\* ctx->leaks[i] = ctx->leaks[--ctx->count]
RemoveBySwap(ctx, i) ==
  [ctx EXCEPT !.current_bytes = @ - ctx.leaks[i].size,
              !.leaks[i] = ctx.leaks[ctx.count],
              !.count = @ - 1]

memcheck_on_free(ctx, ptr) ==
  IF ctx.enabled = 0 \/ ctx.set = 0 \/ ptr = NULL
  THEN ctx
  ELSE IF Matches(ctx, ptr) = {}
       THEN ctx
       ELSE RemoveBySwap(ctx, First(Matches(ctx, ptr)))

memcheck_before_set(ctx, set) ==
  [ctx EXCEPT !.set = set, !.count = 0, !.current_bytes = 0, !.peak_bytes = 0]

memcheck_after_set(ctx) ==
  [ctx EXCEPT !.set = 0, !.leaks = <<>>, !.cap = 0]

\* memcheck_on_end_test marks the current case of its set as failed when the ledger
\* holds a record
memcheck_on_end_test(ss, ctx) ==
  IF ctx.set = 0 \/ ctx.count = 0
  THEN ss
  ELSE [ss EXCEPT ![ctx.set].cases[ss[ctx.set].current].result.state = FAIL]

\* the memory state after callback cb of bundle h, where effect is what the
\* callback of the memcheck bundle does to its context
AfterCallback(h, cb, m, effect) ==
  IF h \in MemBundles /\ Has(h, cb) THEN [m EXCEPT !.ctx = effect] ELSE m

\* a handler that leaves the context's logger as it finds it
KeepLogger(tab) == tab

\* hooks->context->info.logger = current_set->logger
SetLogger(tab) == [tab EXCEPT ![hooks].logger = sets[current_set].logger]

\* the history entry of a callback the runner issues through bundle hooks: it also
\* holds what the callback finds when it is entered, the logger of its context
\* (tab is the bundle table at that point) and the tc_info of the set (ss is sets
\* at that point)
Issued(ev, c, arg, res, tab, ss) ==
  [run |-> runs, ev |-> ev, set |-> current_set, case |-> c,
   h |-> hooks, arg |-> arg, st |-> res.state, msg |-> res.message,
   logger |-> tab[hooks].logger, tc_info |-> ss[current_set].tc_info]

before_set ==
  /\ running /\ state = "BEFORE_SET"
  /\ IF ~DerefOK(hooks)
     THEN Crash
     ELSE /\ hookTab' = SetLogger(hookTab)
          /\ log' = log
                \o <<Event("BEFORE_SET", current_set, 0, hooks, set_sequence, NoRes),
                      IF Has(hooks, "before_set")
                      THEN Issued("before_set", 0, set_sequence, NoRes,
                                  SetLogger(hookTab), sets)
                      ELSE Event("default_header", current_set, 0, hooks, set_sequence,
                                 NoRes)>>
          /\ current_tc_iter' = IF sets[current_set].cases = <<>> THEN 0 ELSE 1
          /\ mem' = AfterCallback(hooks, "before_set", mem,
                                   memcheck_before_set(mem.ctx, current_set))
          /\ state' = "CASE_LOOP"
          /\ UNCHANGED <<sets, current_set, hook_registry, current_hooks, running,
                         sets_arg, test_hooks, hooks, current_set_iter, tc, counters,
                         set_sequence, retval, jmpbuffer, runs>>

case_loop ==
  /\ running /\ state = "CASE_LOOP"
  /\ state' = IF current_tc_iter = 0 THEN "AFTER_SET" ELSE "CASE_INIT"
  /\ log' = Append(log, Event("CASE_LOOP", current_set, 0, hooks, 0, NoRes))
  /\ UNCHANGED <<sets, current_set, hook_registry, current_hooks, hookTab, running,
                 sets_arg, test_hooks, hooks, current_set_iter, current_tc_iter, tc,
                 counters, set_sequence, retval, jmpbuffer, mem, runs>>

\* a CASE_INIT that leaves set->current as it is
case_init_keeping_current ==
  /\ running /\ state = "CASE_INIT"
  /\ tc' = current_tc_iter
  /\ sets' = [sets EXCEPT
        ![current_set].cases[current_tc_iter].has_next =
              (NextCase(current_set, current_tc_iter) # 0)]
  /\ log' = Append(log, Event("CASE_INIT", current_set, current_tc_iter, hooks, 0, NoRes))
  /\ state' = "BEFORE_TEST"
  /\ UNCHANGED <<current_set, hook_registry, current_hooks, hookTab, running, sets_arg,
                 test_hooks, hooks, current_set_iter, current_tc_iter, counters,
                 set_sequence, retval, jmpbuffer, mem, runs>>

\* CASE_INIT: tc = current_tc_iter, then case_init(tc, current_set)
case_init ==
  /\ running /\ state = "CASE_INIT"
  /\ tc' = current_tc_iter
  /\ sets' = [sets EXCEPT
        ![current_set].cases[current_tc_iter].has_next =
              (NextCase(current_set, current_tc_iter) # 0),
        ![current_set].current = current_tc_iter]
  /\ log' = Append(log, Event("CASE_INIT", current_set, current_tc_iter, hooks, 0, NoRes))
  /\ state' = "BEFORE_TEST"
  /\ UNCHANGED <<current_set, hook_registry, current_hooks, hookTab, running, sets_arg,
                 test_hooks, hooks, current_set_iter, current_tc_iter, counters,
                 set_sequence, retval, jmpbuffer, mem, runs>>

\* a per-case handler that sets the context's logger and issues callback cb
HookStep(here, cb, there) ==
  /\ running /\ state = here
  /\ IF ~DerefOK(hooks)
     THEN Crash
     ELSE /\ hookTab' = SetLogger(hookTab)
          /\ log' = log \o <<Event(here, current_set, tc, hooks, 0, NoRes)>>
                        \o (IF Has(hooks, cb)
                            THEN <<Issued(cb, tc, 0, NoRes, SetLogger(hookTab), sets)>>
                            ELSE <<>>)
          /\ state' = there
          /\ UNCHANGED <<sets, current_set, hook_registry, current_hooks, running,
                         sets_arg, test_hooks, hooks, current_set_iter, current_tc_iter,
                         tc, counters, set_sequence, retval, jmpbuffer, runs>>

before_test == HookStep("BEFORE_TEST", "before_test", "SETUP_TEST") /\ UNCHANGED mem

\* set_test_context acts only when there is a current set with a current case
HasContext == current_set # 0 /\ sets[current_set].current # 0

\* longjmp(jmpbuffer, 1) when the function that called setjmp has returned, or
\* when setjmp was never called: the behaviour is undefined.  The process dies,
\* or control resumes at the setjmp of the returned frame, which returns END_TEST
DeadJump(jb) == IF jb.frame = "none" THEN {"CRASH"} ELSE {"CRASH", "END_TEST"}

\* SETUP_TEST: the setup function is called outside of any setjmp; when it fails an
\* assertion, set_test_context writes the result of the current case and jumps
setup_test ==
  /\ running /\ state = "SETUP_TEST"
  /\ IF sets[current_set].setup /\ sets[current_set].setup_asserts /\ HasContext
     THEN /\ sets' = [sets EXCEPT
                        ![current_set].cases[sets[current_set].current].result =
                            AssertOutcome("isTrue_bad")]
          /\ log' = log \o <<Event("SETUP_TEST", current_set, tc, hooks, 0, NoRes),
                             Event("setup", current_set, tc, hooks, 0, NoRes),
                             Event("longjmp", current_set, tc, hooks, jmpbuffer.iter,
                                   [state |-> jmpbuffer.frame, message |-> ""])>>
          /\ \E outcome \in DeadJump(jmpbuffer) :
                /\ state' = outcome
                /\ running' = (outcome # "CRASH")
     ELSE /\ log' = log \o <<Event("SETUP_TEST", current_set, tc, hooks, 0, NoRes)>>
                        \o (IF sets[current_set].setup
                            THEN <<Event("setup", current_set, tc, hooks, 0, NoRes)>>
                            ELSE <<>>)
          /\ state' = "START_TEST"
          /\ UNCHANGED <<sets, running>>
  /\ UNCHANGED <<current_set, hook_registry, current_hooks, hookTab,
                 sets_arg, test_hooks, hooks, current_set_iter, current_tc_iter, tc,
                 counters, set_sequence, retval, jmpbuffer, mem, runs>>

\* start_test calls default_on_start_test itself when the callback is unset
start_test ==
  /\ running /\ state = "START_TEST"
  /\ IF ~DerefOK(hooks)
     THEN Crash
     ELSE /\ hookTab' = SetLogger(hookTab)
          /\ log' = log \o <<Event("START_TEST", current_set, tc, hooks, 0, NoRes),
                             Issued("on_start_test", tc, 0, NoRes, SetLogger(hookTab), sets)>>
          /\ state' = "EXECUTE_TEST"
          /\ UNCHANGED <<sets, current_set, hook_registry, current_hooks, running,
                         sets_arg, test_hooks, hooks, current_set_iter, current_tc_iter,
                         tc, counters, set_sequence, retval, jmpbuffer, mem, runs>>

\* the catch point setjmp stores in jmpbuffer in execute_test
TestCatchPoint == [frame |-> "execute_test", set |-> current_set, case |-> tc, iter |-> 0]

\* the statements a script executed, as history entries
StmtEvents(script, n) ==
  [i \in 1..n |-> Event("stmt", current_set, tc, hooks, i, AssertOutcome(script[i]))]

execute_test ==
  /\ running /\ state = "EXECUTE_TEST"
  /\ jmpbuffer' = TestCatchPoint
  /\ LET c == sets[current_set].cases[tc]
         r == RunScript(c.test, 1, c.result, 0)
     IN IF c.is_fuzz
        THEN /\ state' = "FUZZING_INIT"
             /\ log' = Append(log, Event("EXECUTE_TEST", current_set, tc, hooks, 0, NoRes))
             /\ sets' = sets
        ELSE /\ state' = "END_TEST"
             /\ sets' = IF HasContext
                        THEN [sets EXCEPT
                                ![current_set].cases[sets[current_set].current].result =
                                    r.res]
                        ELSE sets
             /\ log' = log \o <<Event("EXECUTE_TEST", current_set, tc, hooks, 0, NoRes),
                                Event("body", current_set, tc, hooks, 0, NoRes)>>
                           \o StmtEvents(c.test, r.executed)
                           \o (IF r.jumped
                               THEN <<Event("caught", current_set, tc, hooks,
                                            TestCatchPoint.iter, r.res)>>
                               ELSE <<>>)
  /\ UNCHANGED <<current_set, hook_registry, current_hooks, hookTab, running, sets_arg,
                 test_hooks, hooks, current_set_iter, current_tc_iter, tc, counters,
                 set_sequence, retval, mem, runs>>

\* the iterations of execute_fuzzing, as history entries
FuzzEvents(trace) ==
  [k \in 1..Len(trace) |->
      Event(trace[k][1], current_set, tc, hooks, trace[k][2], NoRes)]

\* FUZZING_INIT: the dataset is selected and execute_fuzzing runs the body over it;
\* an unknown tag makes run_tests return END_TEST at once
fuzzing_init ==
  /\ running /\ state = "FUZZING_INIT"
  /\ LET c == sets[current_set].cases[tc]
     IN IF c.fuzz_type \notin FuzzTypes
        THEN /\ sets' = [sets EXCEPT ![current_set].cases[tc].result =
                            [state |-> FAIL, message |-> MSG_INVALID_FUZZ]]
             /\ retval' = "END_TEST"
             /\ running' = FALSE
             /\ log' = Append(log, Event("FUZZING_INIT", current_set, tc, hooks, 0, NoRes))
             /\ UNCHANGED <<state, jmpbuffer>>
        ELSE LET count == Len(Dataset(c.fuzz_type))
                 r == FuzzLoop(1, count, c.fuzz,
                        [res |-> c.result, failed_count |-> 0, jb |-> jmpbuffer,
                         trace |-> <<>>])
             IN /\ sets' = [sets EXCEPT ![current_set].cases[tc].result =
                               FuzzFinal(count, r.failed_count)]
                /\ jmpbuffer' = r.jb
                /\ log' = log \o <<Event("FUZZING_INIT", current_set, tc, hooks, count,
                                         NoRes)>>
                              \o FuzzEvents(r.trace)
                /\ state' = "END_TEST"
                /\ UNCHANGED <<retval, running>>
  /\ UNCHANGED <<current_set, hook_registry, current_hooks, hookTab, sets_arg,
                 test_hooks, hooks, current_set_iter, current_tc_iter, tc, counters,
                 set_sequence, mem, runs>>

end_test ==
  /\ running /\ state = "END_TEST"
  /\ IF ~DerefOK(hooks)
     THEN Crash
     ELSE /\ hookTab' = SetLogger(hookTab)
          /\ log' = log \o <<Event("END_TEST", current_set, tc, hooks, 0, NoRes)>>
                        \o (IF Has(hooks, "on_end_test")
                            THEN <<Issued("on_end_test", tc, 0, NoRes, SetLogger(hookTab),
                                          sets)>>
                            ELSE <<>>)
          /\ sets' = IF hooks \in MemBundles /\ Has(hooks, "on_end_test")
                     THEN memcheck_on_end_test(sets, mem.ctx)
                     ELSE sets
          /\ state' = "TEARDOWN_TEST"
          /\ UNCHANGED <<current_set, hook_registry, current_hooks, running, sets_arg,
                         test_hooks, hooks, current_set_iter, current_tc_iter, tc,
                         counters, set_sequence, retval, jmpbuffer, mem, runs>>

(***************************************************************************)
(* process_result.                                                         *)
(***************************************************************************)
\* an inversion that does not exempt SKIP
InvertSkipToo(res, occurred, passed) ==
  IF res.state = FAIL
  THEN [state |-> PASS, message |-> IF res.message # NULL THEN occurred ELSE NULL]
  ELSE [state |-> FAIL, message |-> passed]

\* one branch of the expectation inversion
Invert(res, occurred, passed) ==
  IF res.state = FAIL
  THEN [state |-> PASS, message |-> IF res.message # NULL THEN occurred ELSE NULL]
  ELSE IF res.state # SKIP
       THEN [state |-> FAIL, message |-> passed]
       ELSE res

\* an inversion to FAIL that leaves the message as the body left it
ExpectFailKeepingMessage(res) ==
  IF res.state = FAIL
  THEN [state |-> PASS,
        message |-> IF res.message # NULL THEN MSG_EXPECT_FAIL_OCCURRED ELSE NULL]
  ELSE IF res.state # SKIP
       THEN [state |-> FAIL, message |-> res.message]
       ELSE res

ExpectFail(res) == Invert(res, MSG_EXPECT_FAIL_OCCURRED, MSG_EXPECT_FAIL_PASSED)

ExpectThrow(res) == Invert(res, MSG_EXPECT_THROW_OCCURRED, MSG_EXPECT_THROW_PASSED)

\* the result of case c after the inversion
Processed(c) ==
  IF c.expect_fail THEN ExpectFail(c.result)
  ELSE IF c.expect_throw THEN ExpectThrow(c.result)
  ELSE c.result

\* the counter a final state increments
CounterOf(st) ==
  IF st = PASS THEN "passed" ELSE IF st = SKIP THEN "skipped" ELSE "failed"

\* the counters of run_tests after a case that ended in state st
Counted(cn, st) ==
  [cn EXCEPT !.tc_passed  = IF CounterOf(st) = "passed" THEN @ + 1 ELSE @,
             !.tc_skipped = IF CounterOf(st) = "skipped" THEN @ + 1 ELSE @,
             !.tc_failed  = IF CounterOf(st) = "failed" THEN @ + 1 ELSE @,
             !.tc_total = @ + 1,
             !.total_tests = @ + 1]

\* the set's own counters after a case that ended in state st
SetCounted(set, st) ==
  [set EXCEPT !.passed  = IF CounterOf(st) = "passed" THEN @ + 1 ELSE @,
              !.skipped = IF CounterOf(st) = "skipped" THEN @ + 1 ELSE @,
              !.failed  = IF CounterOf(st) = "failed" THEN @ + 1 ELSE @]

\* what process_result appends to the history
ResultEvents(res) ==
  <<IF Has(hooks, "on_test_result")
    THEN Issued("on_test_result", tc, 0, res, SetLogger(hookTab),
                [sets EXCEPT ![current_set].tc_info = tc])
    ELSE Event("default_result", current_set, tc, hooks, 0, res)>>

\* what teardown_test appends to the history
TeardownEvents ==
  IF sets[current_set].teardown
  THEN <<Event("teardown", current_set, tc, hooks, 0, NoRes)>>
  ELSE <<>>

\* a TEARDOWN_TEST that runs the teardown function before it processes the result
TeardownFirstLog(res) ==
  <<Event("TEARDOWN_TEST", current_set, tc, hooks, 0, NoRes)>>
     \o TeardownEvents \o ResultEvents(res)

\* the history of TEARDOWN_TEST: process_result is called first, teardown_test last
TeardownLog(res) ==
  <<Event("TEARDOWN_TEST", current_set, tc, hooks, 0, NoRes)>>
     \o ResultEvents(res) \o TeardownEvents

\* TEARDOWN_TEST: process_result, the iterator advance, then teardown_test
teardown_test ==
  /\ running /\ state = "TEARDOWN_TEST"
  /\ IF ~DerefOK(hooks)
     THEN Crash
     ELSE LET c   == sets[current_set].cases[tc]
              res == Processed(c)
          IN /\ sets' = [sets EXCEPT ![current_set] =
                           SetCounted([@ EXCEPT !.cases[tc].result = res,
                                                !.tc_info = tc], res.state)]
             /\ hookTab' = SetLogger(hookTab)
             /\ counters' = Counted(counters, res.state)
             /\ current_tc_iter' = NextCase(current_set, current_tc_iter)
             /\ log' = log \o TeardownLog(res)
             /\ state' = "AFTER_TEST"
             /\ UNCHANGED <<current_set, hook_registry, current_hooks, running, sets_arg,
                            test_hooks, hooks, current_set_iter, tc, set_sequence,
                            retval, jmpbuffer, mem, runs>>

\* default_on_testcase_finish: the atomic counters are folded into the totals
Folded(m) ==
  [m EXCEPT !.global_allocs = 0, !.global_frees = 0,
            !.alloc_count = m.alloc_count + m.global_allocs,
            !.free_count = m.free_count + m.global_frees]

after_test ==
  /\ HookStep("AFTER_TEST", "after_test", "CASE_LOOP")
  /\ mem' = IF state' = "CRASH" THEN mem ELSE Folded(mem)

(***************************************************************************)
(* AFTER_TEST when allocations and frees are made from contexts outside    *)
(* the call chain of run_tests (a signal handler, another thread): the     *)
(* runner's position inside default_on_testcase_finish is part of state.   *)
(***************************************************************************)
FoldStates == {"FOLD_ALLOCS", "FOLD_FREES", "RESET_ALLOCS", "RESET_FREES"}

\* state = after_test(hooks), up to the call of default_on_testcase_finish
after_test_hooks == HookStep("AFTER_TEST", "after_test", "FOLD_ALLOCS") /\ UNCHANGED mem

\* one statement of default_on_testcase_finish
FoldStep(here, there, m) ==
  /\ running /\ state = here
  /\ mem' = m
  /\ state' = there
  /\ UNCHANGED <<sets, current_set, hook_registry, current_hooks, hookTab, running,
                 sets_arg, test_hooks, hooks, current_set_iter, current_tc_iter, tc,
                 counters, set_sequence, retval, jmpbuffer, runs, log>>

\* _sigtest_alloc_count += atomic_load(&global_allocs)
fold_allocs ==
  FoldStep("FOLD_ALLOCS", "FOLD_FREES",
           [mem EXCEPT !.alloc_count = @ + mem.global_allocs])

\* _sigtest_free_count += atomic_load(&global_frees)
fold_frees ==
  FoldStep("FOLD_FREES", "RESET_ALLOCS",
           [mem EXCEPT !.free_count = @ + mem.global_frees])

\* atomic_store(&global_allocs, 0)
reset_allocs == FoldStep("RESET_ALLOCS", "RESET_FREES", [mem EXCEPT !.global_allocs = 0])

\* atomic_store(&global_frees, 0)
reset_frees == FoldStep("RESET_FREES", "CASE_LOOP", [mem EXCEPT !.global_frees = 0])

\* the st_summary after_set builds and hands to on_set_summary, as a history entry
Summary(ev, s, h, sequence, m) ==
  [run |-> runs, ev |-> ev, set |-> s, case |-> 0, h |-> h, arg |-> sequence,
   st |-> "", msg |-> "", logger |-> SetLogger(hookTab)[h].logger,
   tc_total |-> counters.tc_total, tc_passed |-> counters.tc_passed,
   tc_failed |-> counters.tc_failed, tc_skipped |-> counters.tc_skipped,
   total_mallocs |-> m.alloc_count, total_frees |-> m.free_count]

\* after_set, the per-set summary and the set's cleanup; then the set iterator advances
after_set ==
  /\ running /\ state = "AFTER_SET"
  /\ IF ~DerefOK(hooks)
     THEN Crash
     ELSE /\ hookTab' = SetLogger(hookTab)
          /\ log' = log
               \o <<Event("AFTER_SET", current_set, 0, hooks, set_sequence, NoRes)>>
               \o (IF Has(hooks, "after_set")
                   THEN <<Issued("after_set", 0, set_sequence, NoRes,
                                 SetLogger(hookTab), sets)>>
                   ELSE <<>>)
               \o <<Summary(IF Has(hooks, "on_set_summary") THEN "on_set_summary"
                                                             ELSE "default_summary",
                            current_set, hooks, set_sequence, mem)>>
               \o (IF sets[current_set].cleanup
                   THEN <<Event("cleanup", current_set, 0, hooks, set_sequence, NoRes)>>
                   ELSE <<>>)
          /\ current_set_iter' = NextSet(current_set_iter)
          /\ mem' = AfterCallback(hooks, "after_set", mem, memcheck_after_set(mem.ctx))
          /\ state' = "SET_LOOP"
          /\ UNCHANGED <<sets, current_set, hook_registry, current_hooks, running,
                         sets_arg, test_hooks, hooks, current_tc_iter, tc, counters,
                         set_sequence, retval, jmpbuffer, runs>>

\* runner_summary reads the name and the counters of the set it is given
runner_summary ==
  /\ running /\ state = "RUNNER_SUMMARY"
  /\ IF sets_arg = 0
     THEN Crash
     ELSE /\ state' = "RUNNER_DONE"
          /\ log' = Append(log, Event("RUNNER_SUMMARY", sets_arg, 0, hooks, 0, NoRes))
          /\ UNCHANGED <<sets, current_set, hook_registry, current_hooks, hookTab,
                         running, sets_arg, test_hooks, hooks, current_set_iter,
                         current_tc_iter, tc, counters, set_sequence, retval, jmpbuffer,
                         mem, runs>>

\* an exit status that also reports unfreed allocations
ExitStatusOfLeaks(set) ==
  IF set.failed > 0 \/ mem.alloc_count > mem.free_count
  THEN "EXIT_FAILURE" ELSE "EXIT_SUCCESS"

\* the exit status: the failed counter of the set run_tests was given
ExitStatus(set) == IF set.failed > 0 THEN "EXIT_FAILURE" ELSE "EXIT_SUCCESS"

\* the loop of run_tests is left and runner_done gives the return value
runner_done ==
  /\ running /\ state = "RUNNER_DONE"
  /\ retval' = ExitStatus(sets[sets_arg])
  /\ running' = FALSE
  /\ log' = Append(log, Event("RUNNER_DONE", sets_arg, 0, hooks, 0,
                              [state |-> ExitStatus(sets[sets_arg]), message |-> ""]))
  /\ UNCHANGED <<sets, current_set, hook_registry, current_hooks, hookTab, state,
                 sets_arg, test_hooks, hooks, current_set_iter, current_tc_iter, tc,
                 counters, set_sequence, jmpbuffer, mem, runs>>

(***************************************************************************)
(* The allocation entry points.  The code of the tests calls them: a test   *)
(* body has run when the runner is about to enter END_TEST.  The bodies    *)
(* allocate in the first MaxMemRuns runs, MaxMemCalls times at most.       *)
(***************************************************************************)
MemCalls == {k \in DOMAIN log : log[k].ev \in {"__wrap_malloc", "__wrap_free"}}

\* the blocks that were allocated and not freed
Outstanding ==
  Cardinality({k \in DOMAIN log : log[k].ev = "__wrap_malloc" /\ log[k].st # NULL})
    - Cardinality({k \in DOMAIN log : log[k].ev = "__wrap_free" /\ log[k].st # NULL})

UserCode == running /\ state = "END_TEST" /\ runs <= MaxMemRuns

\* a counting that does not look at the pointer
CountAlways(m, counter, p) == [m EXCEPT ![counter] = @ + 1]

\* if (p) atomic_fetch_add(&counter, 1)
Count(m, counter, p) == IF p # NULL THEN [m EXCEPT ![counter] = @ + 1] ELSE m

\* the callback cb of current_hooks, called for a non-null pointer when it is set
MemHook(cb, p) ==
  IF p # NULL /\ current_hooks # NULL /\ hookTab[current_hooks].cb[cb] # "null"
  THEN <<Event(cb, current_set, tc, current_hooks, 0, [state |-> p, message |-> ""])>>
  ELSE <<>>

\* __wrap_malloc: results are the values __real_malloc may return
Malloc(sizes, results) ==
  /\ Cardinality(MemCalls) < MaxMemCalls
  /\ \E s \in sizes, p \in results :
        /\ mem' = IF MemHook("on_memory_alloc", p) # <<>>
                  THEN AfterCallback(current_hooks, "on_memory_alloc",
                                     Count(mem, "global_allocs", p),
                                     memcheck_on_alloc(mem.ctx, s, p))
                  ELSE Count(mem, "global_allocs", p)
        /\ log' = log \o <<Event("__wrap_malloc", current_set, tc, current_hooks, s,
                                   [state |-> p, message |-> ""])>>
                       \o MemHook("on_memory_alloc", p)
  /\ UNCHANGED <<sets, current_set, hook_registry, current_hooks, hookTab, running, state,
                 sets_arg, test_hooks, hooks, current_set_iter, current_tc_iter, tc,
                 counters, set_sequence, retval, jmpbuffer, runs>>

\* __wrap_free: ptrs are the arguments, a block that is outstanding or NULL
Free(ptrs) ==
  /\ Cardinality(MemCalls) < MaxMemCalls
  /\ \E p \in ptrs :
        /\ p # NULL => Outstanding > 0
        /\ mem' = IF MemHook("on_memory_free", p) # <<>>
                  THEN AfterCallback(current_hooks, "on_memory_free",
                                     Count(mem, "global_frees", p),
                                     memcheck_on_free(mem.ctx, p))
                  ELSE Count(mem, "global_frees", p)
        /\ log' = log \o <<Event("__wrap_free", current_set, tc, current_hooks, 0,
                                   [state |-> p, message |-> ""])>>
                       \o MemHook("on_memory_free", p)
  /\ UNCHANGED <<sets, current_set, hook_registry, current_hooks, hookTab, running, state,
                 sets_arg, test_hooks, hooks, current_set_iter, current_tc_iter, tc,
                 counters, set_sequence, retval, jmpbuffer, runs>>

\* the wrappers called by a test body
wrap_malloc(sizes, results) == UserCode /\ Malloc(sizes, results)
wrap_free(ptrs) == UserCode /\ Free(ptrs)

\* the wrappers called from outside the call chain of run_tests; the calls are
\* taken while the runner is in AFTER_TEST of a case of its first run
Elsewhere == running /\ state \in {"AFTER_TEST"} \cup FoldStates /\ runs <= MaxMemRuns
async_malloc(sizes, results) == Elsewhere /\ Malloc(sizes, results)

\* MemCheck.enable(), called by main after MemCheck.init() and before the run
memcheck_enable ==
  /\ Registering
  /\ \E i \in DOMAIN hook_registry : hook_registry[i] \in MemBundles
  /\ mem.ctx.enabled = 0
  /\ mem' = [mem EXCEPT !.ctx.enabled = 1]
  /\ UNCHANGED <<sets, current_set, hook_registry, current_hooks, hookTab, running, state,
                 sets_arg, test_hooks, hooks, current_set_iter, current_tc_iter, tc,
                 counters, set_sequence, retval, jmpbuffer, runs, log>>

\* the blocks that are allocated: the last call with the pointer was an allocation
Live ==
  {p \in Addresses :
     \E k \in DOMAIN log :
        /\ log[k].ev = "__wrap_malloc" /\ log[k].st = p
        /\ \A j \in (k + 1)..Len(log) : ~(log[j].ev = "__wrap_free" /\ log[j].st = p)}
async_free(ptrs) == Elsewhere /\ Free(ptrs)

(***************************************************************************)
(* Specifications.                                                         *)
(***************************************************************************)
Init ==
  /\ sets = <<>>
  /\ current_set = 0
  /\ hook_registry = <<"default">>
  /\ current_hooks = NULL
  /\ hookTab = [b \in Bundles |->
                  CASE b = "default" -> default_hooks
                    [] b = "json"    -> json_hooks
                    [] b = "junit"   -> junit_hooks
                    [] b = "named"   -> new_hooks("mine")
                    [] b = "fresh"   -> new_hooks(NULL)
                    [] b = "memcheck" -> memcheck_hooks]
  /\ running = FALSE
  /\ state = "RUNNER_IDLE"
  /\ sets_arg = 0
  /\ test_hooks = NULL
  /\ hooks = NULL
  /\ current_set_iter = 0
  /\ current_tc_iter = 0
  /\ tc = 0
  /\ counters = ZeroCounters
  /\ set_sequence = 0
  /\ retval = "none"
  /\ jmpbuffer = [frame |-> "none", set |-> 0, case |-> 0, iter |-> 0]
  /\ mem = [global_allocs |-> 0, global_frees |-> 0, alloc_count |-> 0, free_count |-> 0,
            ctx |-> MemCheckContext]
  /\ runs = 0
  /\ log = <<>>

\* the handlers of the state machine, but for AFTER_TEST and FUZZING_INIT
Handlers ==
  \/ runner_init
  \/ set_loop
  \/ set_init
  \/ before_set
  \/ case_loop
  \/ case_init
  \/ before_test
  \/ setup_test
  \/ start_test
  \/ execute_test
  \/ end_test
  \/ teardown_test
  \/ after_set
  \/ runner_summary
  \/ runner_done

\* the state machine when nothing runs beside it: AFTER_TEST is one step
Runner ==
  \/ Handlers
  \/ after_test

\* Runs of registries of plain and fuzz cases with setup, teardown and cleanup
\* functions, under the default hooks.
PlainBodies == { <<"isTrue_ok">>, <<"isTrue_bad", "isTrue_ok">>, <<"skip", "isTrue_bad">> }

Next ==
  \/ testset(BOOLEAN, Blocks)
  \/ testcase(PlainBodies, Blocks)
  \/ fuzz_testcase({{1}}, {"FUZZ_INT", FUZZ_INVALID}, Blocks)
  \/ setup_testcase
  \/ teardown_testcase
  \/ run_tests({NULL})
  \/ Runner
  \/ fuzzing_init

Spec == Init /\ [][Next]_vars

\* Runs of registries of cases with and without expectation flags.
NextExpect ==
  \/ testset({FALSE}, Blocks)
  \/ testcase(Bodies, Blocks)
  \/ fail_testcase(Bodies, Blocks)
  \/ testcase_throws(Bodies, Blocks)
  \/ run_tests({NULL})
  \/ Runner

SpecExpect == Init /\ [][NextExpect]_vars

\* Runs of registries of fuzz cases.
NextFuzz ==
  \/ testset({FALSE}, Blocks)
  \/ fuzz_testcase(FuzzFuncs, FuzzTypes \cup {FUZZ_INVALID}, Blocks)
  \/ run_tests({NULL})
  \/ Runner
  \/ fuzzing_init

SpecFuzz == Init /\ [][NextFuzz]_vars

\* Runs of registries with registered hook bundles.
NextHooks ==
  \/ testset({FALSE}, Blocks)
  \/ testcase({<<"isTrue_ok">>}, Blocks)
  \/ register_hooks(UserBundles, Blocks)
  \/ run_tests({NULL, current_hooks})
  \/ Runner

SpecHooks == Init /\ [][NextHooks]_vars

\* Runs of registries with a bundle obtained from init_hooks.
NextNamed ==
  \/ testset({FALSE}, Blocks)
  \/ testcase({<<"isTrue_ok">>}, Blocks)
  \/ register_hooks(NamedBundles, Blocks)
  \/ run_tests({NULL, current_hooks})
  \/ Runner

SpecNamed == Init /\ [][NextNamed]_vars

\* Runs of tests that allocate and free, with and without the memcheck bundle.
NextMem ==
  \/ testset({FALSE}, Blocks)
  \/ testcase({<<"isTrue_ok">>, <<"isTrue_bad", "isTrue_ok">>}, Blocks)
  \/ register_hooks(MemBundles, Blocks)
  \/ wrap_malloc(Sizes, {"block"})
  \/ wrap_free({"block"})
  \/ run_tests({NULL})
  \/ Runner

SpecMem == Init /\ [][NextMem]_vars

\* The same with allocations that fail and with free(NULL).
Pointers == {NULL, "block"}

NextWrap ==
  \/ testset({FALSE}, Blocks)
  \/ testcase({<<"isTrue_ok">>}, Blocks)
  \/ register_hooks(MemBundles, Blocks)
  \/ wrap_malloc(Sizes, Pointers)
  \/ wrap_free(Pointers)
  \/ run_tests({NULL})
  \/ Runner

SpecWrap == Init /\ [][NextWrap]_vars

\* Registrations whose bookkeeping allocations may fail.
NextNoMem ==
  \/ testset({FALSE}, Pointers)
  \/ testcase({<<"isTrue_ok">>}, Pointers)
  \/ register_hooks({"json"} \cup FreshBundles, Pointers)
  \/ init_hooks({"mine"}, Pointers)
  \/ run_tests({NULL})
  \/ Runner

SpecNoMem == Init /\ [][NextNoMem]_vars

\* Bodies that compare two ints and then make one more assertion.
IntPairs == {<<5, 5>>, <<5, 6>>, <<INT_MIN, INT_MIN>>, <<INT_MIN, -1>>, <<0, 15>>}
EqualBodies ==
  {<<Call("areEqual", p[1], p[2], "INT", NULL), "isTrue_ok">> : p \in IntPairs}
    \cup {<<Call("areEqual", 6, 5, "INT", "values differ"), "isTrue_ok">>}

NextAssert ==
  \/ testset({FALSE}, Blocks)
  \/ testcase(EqualBodies, Blocks)
  \/ run_tests({NULL})
  \/ Runner

SpecAssert == Init /\ [][NextAssert]_vars

\* Bodies that call a comparison with a type tag it does not handle.
TypeBodies ==
  {<<Call(op, 5, 5, type, NULL), "isTrue_ok">> :
      op \in Compares, type \in {"STRING", TYPE_INVALID}}
    \cup {<<Call("areNotEqual", 5, 6, "LONG", NULL), "isTrue_ok">>}

NextTypes ==
  \/ testset({FALSE}, Blocks)
  \/ testcase(TypeBodies, Blocks)
  \/ run_tests({NULL})
  \/ Runner

SpecTypes == Init /\ [][NextTypes]_vars

\* Bundles of one name, registered in either order and looked up by name.
NextLookup ==
  \/ testset({FALSE}, Blocks)
  \/ testcase({<<"isTrue_ok">>}, Blocks)
  \/ init_hooks({"mine", "json", ""}, Blocks)
  \/ register_hooks(NamedBundles \cup FreshBundles \cup {"json"}, Blocks)
  \/ run_tests({NULL})
  \/ Runner

SpecLookup == Init /\ [][NextLookup]_vars

\* Runs with allocations and frees made beside the runner.
NextAsync ==
  \/ testset({FALSE}, Blocks)
  \/ testcase({<<"isTrue_ok">>}, Blocks)
  \/ run_tests({NULL})
  \/ Handlers
  \/ after_test_hooks
  \/ fold_allocs
  \/ fold_frees
  \/ reset_allocs
  \/ reset_frees
  \/ async_malloc(Sizes, Blocks)
  \/ async_free(Blocks)

SpecAsync == Init /\ [][NextAsync]_vars

\* Runs under the memcheck bundle with tracking enabled: the bodies allocate
\* blocks that are not allocated, and free allocated blocks or a block that was
\* allocated before the run.
NextLedger ==
  \/ testset({FALSE}, Blocks)
  \/ testcase({<<"isTrue_ok">>}, Blocks)
  \/ register_hooks(MemBundles, Blocks)
  \/ memcheck_enable
  \/ wrap_malloc(LedgerSizes, Addresses \ Live)
  \/ wrap_free(Live \cup {Old})
  \/ run_tests({NULL})
  \/ Runner

SpecLedger == Init /\ [][NextLedger]_vars

\* Runs in which every step of the runner that can be taken is eventually taken:
\* every body, setup, teardown, cleanup and callback returns.
NextLive ==
  \/ testset({FALSE}, Blocks)
  \/ testcase({<<"isTrue_ok">>, <<"isTrue_bad", "isTrue_ok">>}, Blocks)
  \/ fuzz_testcase({{1}}, {"FUZZ_INT", FUZZ_INVALID}, Blocks)
  \/ run_tests({NULL})
  \/ Runner
  \/ fuzzing_init

SpecLive == Init /\ [][NextLive]_vars /\ WF_vars(Runner \/ fuzzing_init)

\* Runs of registries of sets with and without cases and cleanup functions, under
\* the default bundle or a registered bundle that has the set callbacks.
NextSets ==
  \/ testset(BOOLEAN, Blocks)
  \/ testcase({<<"isTrue_ok">>}, Blocks)
  \/ fuzz_testcase({{1}}, {"FUZZ_INT", FUZZ_INVALID}, Blocks)
  \/ register_hooks({"json"}, Blocks)
  \/ run_tests({NULL})
  \/ Runner
  \/ fuzzing_init

SpecSets == Init /\ [][NextSets]_vars

\* Runs of sets whose setup function may fail an assertion.
NextUnwind ==
  \/ testset({FALSE}, Blocks)
  \/ testcase({<<"isTrue_ok">>, <<"isTrue_bad", "isTrue_ok">>}, Blocks)
  \/ setup_testcase
  \/ setup_testcase_asserting
  \/ run_tests({NULL})
  \/ Runner

SpecUnwind == Init /\ [][NextUnwind]_vars

\* Bodies that make one comparison; a second case makes the opposite comparison
\* of the same values.
ComparePairs == {<<5, 5>>, <<5, 6>>, <<5, 15>>, <<NAN, NAN>>, <<5, NAN>>}
CompareBodies ==
  IF TotalCases(sets) = 0
  THEN {<<Call("areEqual", p[1], p[2], type, NULL)>> :
           p \in ComparePairs, type \in AssertTypes \ {"STRING"}}
  ELSE UNION {{<<CallText([CallOf[sets[s].cases[c].test[1]] EXCEPT !.op = "areNotEqual"])>> :
                  c \in DOMAIN sets[s].cases} : s \in DOMAIN sets}

NextCompare ==
  \/ testset({FALSE}, Blocks)
  \/ testcase(CompareBodies, Blocks)
  \/ run_tests({NULL})
  \/ Runner

SpecCompare == Init /\ [][NextCompare]_vars

(***************************************************************************)
(* Properties.                                                             *)
(***************************************************************************)
\* the history entries that report a case's final result
ResultEvs == {"on_test_result", "default_result"}

\* the case a history entry is about
CaseOf(e) == sets[e.set].cases[e.case]

\* what a body does on its own: it is run from the result of a fresh case
Fresh == [state |-> PASS, message |-> NULL]
BodyRun(c) == RunScript(c.test, 1, Fresh, 0)
BodyFails(c) == BodyRun(c).jumped /\ BodyRun(c).res.state = FAIL
BodySkips(c) == BodyRun(c).jumped /\ BodyRun(c).res.state = SKIP
BodyCompletes(c) == ~BodyRun(c).jumped

\* run_tests has returned through runner_done
Returned == ~running /\ retval \in {"EXIT_SUCCESS", "EXIT_FAILURE"}

\* some case of some set ended the last run in state FAIL
AnyFailed ==
  \E s \in DOMAIN sets : \E c \in DOMAIN sets[s].cases :
     sets[s].cases[c].result.state = FAIL

\* C1: run_tests returns a nonzero status if and only if at least one case of any
\* set of the registry ended in state FAIL, also when that set is not the head of
\* the registry list.
C1_ExitStatusAnySet ==
  Returned => (retval = "EXIT_FAILURE" <=> AnyFailed)

\* the number of cases of set s reported in state st in run r
ResultCount(r, s, st) ==
  Cardinality({k \in DOMAIN log : /\ log[k].ev \in ResultEvs
                                  /\ log[k].run = r
                                  /\ log[k].set = s
                                  /\ log[k].st = st})

\* the states of run_tests in which its tc_ counters belong to current_set
InSet == running /\ state \in {"BEFORE_SET", "CASE_LOOP", "CASE_INIT", "BEFORE_TEST",
                               "SETUP_TEST", "START_TEST", "EXECUTE_TEST", "FUZZING_INIT",
                               "END_TEST", "TEARDOWN_TEST", "AFTER_TEST", "AFTER_SET"}

\* every reported result incremented the counter of its state, and no other
CountedAsReported ==
  InSet => /\ counters.tc_passed  = ResultCount(runs, current_set, PASS)
           /\ counters.tc_failed  = ResultCount(runs, current_set, FAIL)
           /\ counters.tc_skipped = ResultCount(runs, current_set, SKIP)

\* C2: a case registered with fail_testcase is reported PASS (and counted as
\* passed) if its body fails an assertion, and FAIL with message "Expected failure
\* but passed" (and counted as failed) if its body finishes without a failing
\* assertion.
C2_ExpectFailInverted ==
  /\ \A k \in DOMAIN log :
        (log[k].ev \in ResultEvs /\ CaseOf(log[k]).expect_fail) =>
           /\ BodyFails(CaseOf(log[k])) => log[k].st = PASS
           /\ BodyCompletes(CaseOf(log[k])) =>
                 log[k].st = FAIL /\ log[k].msg = "Expected failure but passed"
  /\ CountedAsReported

\* C3: for a case registered with testcase_throws, a FAIL outcome of the body is
\* reported as PASS with message "Expected throw occurred" and a PASS outcome of the
\* body is reported as FAIL with message "Expected throw but passed".
C3_ExpectThrowInverted ==
  \A k \in DOMAIN log :
     (log[k].ev \in ResultEvs /\ CaseOf(log[k]).expect_throw) =>
        /\ BodyFails(CaseOf(log[k])) =>
              log[k].st = PASS /\ log[k].msg = "Expected throw occurred"
        /\ BodyCompletes(CaseOf(log[k])) =>
              log[k].st = FAIL /\ log[k].msg = "Expected throw but passed"

\* C4: a case whose body ends in state SKIP is reported SKIP, whatever its
\* expectation flags, and increments the skipped counter only.
C4_SkipNeverInverted ==
  /\ \A k \in DOMAIN log :
        (log[k].ev \in ResultEvs /\ BodySkips(CaseOf(log[k]))) => log[k].st = SKIP
  /\ CountedAsReported
  /\ \A s \in DOMAIN sets :
        sets[s].skipped = Cardinality({k \in DOMAIN log : /\ log[k].ev \in ResultEvs
                                                          /\ log[k].set = s
                                                          /\ log[k].st = SKIP})

\* a skipping body of a case that expects a failure and of one that expects a
\* throw have been reported
C4_Witness ==
  /\ \E k \in DOMAIN log : /\ log[k].ev \in ResultEvs
                           /\ CaseOf(log[k]).expect_fail
                           /\ BodySkips(CaseOf(log[k]))
  /\ \E k \in DOMAIN log : /\ log[k].ev \in ResultEvs
                           /\ CaseOf(log[k]).expect_throw
                           /\ BodySkips(CaseOf(log[k]))

\* C5: in a non-fuzz case the first assertion with a non-PASS result returns
\* control to the catch point of EXECUTE_TEST: no later statement of the body
\* runs, and the case holds the state and message of that assertion.
C5_FirstFailureAborts ==
  /\ \A k \in DOMAIN log :
        (log[k].ev = "stmt" /\ log[k].st # PASS) =>
           /\ k + 1 \in DOMAIN log
           /\ log[k + 1].ev = "caught"
           /\ log[k + 1].arg = 0
           /\ <<log[k + 1].run, log[k + 1].set, log[k + 1].case>>
                 = <<log[k].run, log[k].set, log[k].case>>
           /\ k + 2 \in DOMAIN log => log[k + 2].ev = "END_TEST"
  /\ (running /\ state = "END_TEST" /\ log[Len(log) - 1].ev = "stmt"
        /\ log[Len(log) - 1].st # PASS) =>
        /\ jmpbuffer = [frame |-> "execute_test", set |-> current_set, case |-> tc,
                        iter |-> 0]
        /\ sets[current_set].cases[tc].result =
              [state |-> log[Len(log) - 1].st, message |-> log[Len(log) - 1].msg]

\* a body was left at a failing assertion that is not its last statement
C5_Witness ==
  /\ running /\ state = "END_TEST"
  /\ log[Len(log)].ev = "caught"
  /\ log[Len(log) - 1].st = FAIL
  /\ log[Len(log) - 1].arg < Len(sets[current_set].cases[tc].test)


\* two history entries are about the same case of the same run
SameCase(e, f) == e.run = f.run /\ e.set = f.set /\ e.case = f.case

\* the number of history entries named in evs that are about the case of entry e
CountFor(e, evs) ==
  Cardinality({j \in DOMAIN log : log[j].ev \in evs /\ SameCase(log[j], e)})

\* the history entries made while a body runs
BodyEvs == {"body", "stmt", "caught", "fuzz_body"}

CaseTrace(r, s, c) ==
  LET OfCase(e) == e.run = r /\ e.set = s /\ e.case = c /\ e.ev \notin {"stmt", "caught", "fuzz_body"}
      es == SelectSeq(log, OfCase)
  IN [i \in DOMAIN es |-> es[i].ev]

\* the states of C7 and the calls made in each, for case c of set s under bundle h
ExpectedTrace(s, c, h) ==
  <<"CASE_INIT", "BEFORE_TEST">>
    \o (IF Has(h, "before_test") THEN <<"before_test">> ELSE <<>>)
    \o <<"SETUP_TEST">>
    \o (IF sets[s].setup THEN <<"setup">> ELSE <<>>)
    \o <<"START_TEST", "on_start_test", "EXECUTE_TEST">>
    \o (IF sets[s].cases[c].is_fuzz THEN <<"FUZZING_INIT">> ELSE <<"body">>)
    \o <<"END_TEST">>
    \o (IF Has(h, "on_end_test") THEN <<"on_end_test">> ELSE <<>>)
    \o <<"TEARDOWN_TEST">>
    \o (IF Has(h, "on_test_result") THEN <<"on_test_result">> ELSE <<"default_result">>)
    \o (IF sets[s].teardown THEN <<"teardown">> ELSE <<>>)
    \o <<"AFTER_TEST">>
    \o (IF Has(h, "after_test") THEN <<"after_test">> ELSE <<>>)

IsPrefix(p, q) == Len(p) <= Len(q) /\ SubSeq(q, 1, Len(p)) = p

\* the cases the history has entries about
LoggedCases ==
  {<<log[k].run, log[k].set, log[k].case, log[k].h>> :
      k \in {j \in DOMAIN log : log[j].case # 0}}

\* the runner is still working on case c of set s in run r
Current(r, s, c) == running /\ r = runs /\ s = current_set /\ c = tc /\ state # "CASE_LOOP"

\* C7: for every case the runner goes through CASE_INIT, BEFORE_TEST, SETUP_TEST,
\* START_TEST, EXECUTE_TEST, FUZZING_INIT (fuzz cases only), END_TEST,
\* TEARDOWN_TEST, AFTER_TEST and back to CASE_LOOP in this order; the calls of the
\* case are made once each in that order and are not interleaved with the calls of
\* another case.
C7_CaseStateOrder ==
  /\ \A x \in LoggedCases :
        /\ IsPrefix(CaseTrace(x[1], x[2], x[3]), ExpectedTrace(x[2], x[3], x[4]))
        /\ ~Current(x[1], x[2], x[3]) =>
              CaseTrace(x[1], x[2], x[3]) = ExpectedTrace(x[2], x[3], x[4])
  /\ \A k \in DOMAIN log :
        (log[k].case # 0 /\ (k = 1 \/ ~SameCase(log[k - 1], log[k]))) =>
           log[k].ev = "CASE_INIT"
  /\ \A k \in DOMAIN log :
        (log[k].case # 0 /\ k + 1 \in DOMAIN log /\ ~SameCase(log[k + 1], log[k])) =>
           log[k + 1].ev = "CASE_LOOP"

\* the same order, for the cases that are not fuzz cases with an unknown tag
CaseStateOrderOfKnownTags ==
  /\ \A x \in LoggedCases :
        LET c == sets[x[2]].cases[x[3]]
        IN (~c.is_fuzz \/ c.fuzz_type \in FuzzTypes) =>
              /\ IsPrefix(CaseTrace(x[1], x[2], x[3]), ExpectedTrace(x[2], x[3], x[4]))
              /\ ~Current(x[1], x[2], x[3]) =>
                    CaseTrace(x[1], x[2], x[3]) = ExpectedTrace(x[2], x[3], x[4])
  /\ \A k \in DOMAIN log :
        (log[k].case # 0 /\ (k = 1 \/ ~SameCase(log[k - 1], log[k]))) =>
           log[k].ev = "CASE_INIT"

\* the number of dataset positions at which the body of fuzz case c fails
FailingIterations(c) == Cardinality(c.fuzz \cap (1..Len(Dataset(c.fuzz_type))))

\* C8: a fuzz case over a dataset of N values ends PASS if and only if no iteration
\* failed; with F >= 1 failed iterations it ends FAIL with the message
\* "<N-F> of <N> fuzz iterations passed", wherever in the dataset they failed.
C8_FuzzAggregate ==
  \A k \in DOMAIN log :
     (log[k].ev \in ResultEvs /\ CaseOf(log[k]).is_fuzz
        /\ CaseOf(log[k]).fuzz_type \in FuzzTypes) =>
        LET N == Len(Dataset(CaseOf(log[k]).fuzz_type))
            F == FailingIterations(CaseOf(log[k]))
        IN /\ log[k].st = PASS <=> F = 0
           /\ F >= 1 =>
                 /\ log[k].st = FAIL
                 /\ log[k].msg = ToString(N - F) \o " of " \o ToString(N)
                                    \o " fuzz iterations passed"
           /\ (N = 7 /\ F = 1) => log[k].msg = "6 of 7 fuzz iterations passed"
           /\ CaseOf(log[k]).result = [state |-> log[k].st, message |-> log[k].msg]

\* integer-dataset cases with one failing iteration, at the first and at the last
\* position, were reported, and so was a case none of whose iterations failed
C8_Witness ==
  /\ \E k \in DOMAIN log : /\ log[k].ev \in ResultEvs
                           /\ CaseOf(log[k]).fuzz_type = "FUZZ_INT"
                           /\ CaseOf(log[k]).fuzz = {1}
                           /\ log[k].msg = "6 of 7 fuzz iterations passed"
  /\ \E k \in DOMAIN log : /\ log[k].ev \in ResultEvs
                           /\ CaseOf(log[k]).fuzz_type = "FUZZ_INT"
                           /\ CaseOf(log[k]).fuzz = {7}
                           /\ log[k].msg = "6 of 7 fuzz iterations passed"

\* the history entries of the iterations that FUZZING_INIT entry k started
RECURSIVE FuzzSegment(_)
FuzzSegment(k) ==
  IF k + 1 \in DOMAIN log /\ log[k + 1].ev \in {"fuzz_body", "caught"}
  THEN <<log[k + 1]>> \o FuzzSegment(k + 1)
  ELSE <<>>

IsFuzzBody(e) == e.ev = "fuzz_body"

\* C9: in a fuzz case the body is invoked exactly once for each element of the
\* selected dataset, in dataset order, whatever the earlier iterations did, and the
\* abort of an iteration is caught by the catch point of that iteration.
C9_FuzzEveryIteration ==
  \A k \in DOMAIN log :
     (log[k].ev = "FUZZING_INIT" /\ CaseOf(log[k]).fuzz_type \in FuzzTypes) =>
        LET N      == Len(Dataset(CaseOf(log[k]).fuzz_type))
            seg    == FuzzSegment(k)
            bodies == SelectSeq(seg, IsFuzzBody)
        IN /\ Len(bodies) = N
           /\ \A i \in 1..N : bodies[i].arg = i /\ SameCase(bodies[i], log[k])
           /\ \A p \in DOMAIN seg :
                 seg[p].ev = "caught" =>
                    /\ p > 1
                    /\ seg[p - 1].ev = "fuzz_body"
                    /\ seg[p].arg = seg[p - 1].arg
                    /\ seg[p].arg \in CaseOf(log[k]).fuzz
           /\ \A p \in DOMAIN seg :
                 (seg[p].ev = "fuzz_body" /\ seg[p].arg \in CaseOf(log[k]).fuzz) =>
                    (p + 1 \in DOMAIN seg /\ seg[p + 1].ev = "caught")

\* a fuzz case ran all the iterations of its dataset although the first one failed
C9_Witness ==
  \E k \in DOMAIN log :
     /\ log[k].ev = "FUZZING_INIT"
     /\ CaseOf(log[k]).fuzz_type = "FUZZ_FLOAT"
     /\ CaseOf(log[k]).fuzz = 1..11
     /\ Len(FuzzSegment(k)) = 22

\* the bundles bound to the sets of the registry
BoundBundles == {sets[s].hooks : s \in {i \in DOMAIN sets : sets[i].hooks \in Bundles}}

\* C10: runner_init resolves the active bundle as the explicit argument of
\* run_tests if it is not null, else the bundle bound to a set if one is bound, else
\* the first bundle of the hook registry, else the defaults; a bound bundle wins
\* over the registry's first bundle also when only some of the sets have one.
C10_HookPrecedence ==
  (running /\ state = "SET_LOOP" /\ sets # <<>>
     /\ \A s \in DOMAIN sets : sets[s].hooks # GARBAGE) =>
     IF test_hooks # NULL THEN hooks = test_hooks
     ELSE IF BoundBundles # {} THEN hooks \in BoundBundles
     ELSE hooks = Head(hook_registry)


\* the history entries of the registration calls, made outside of the runner
RegistrationEntries ==
  {k \in DOMAIN log :
     log[k].ev \in {"testset", "create_testcase", "register_hooks", "init_hooks"}}

\* the history entry of runner_init in run r, 0 when there is none
InitEntry(r) ==
  LET ks == {k \in DOMAIN log : log[k].ev = "RUNNER_INIT" /\ log[k].run = r}
  IN IF ks = {} THEN 0 ELSE CHOOSE k \in ks : TRUE

\* C11: the bundle resolved by runner_init is the bundle through which every
\* handler and callback of that run is issued, for every set and case: the runner's
\* bundle does not change between INIT and DONE and is not resolved again when the
\* runner moves to the next set.
C11_BundleConstantInRun ==
  /\ \A k \in DOMAIN log \ RegistrationEntries :
        /\ InitEntry(log[k].run) # 0
        /\ InitEntry(log[k].run) <= k
        /\ log[k].h = log[InitEntry(log[k].run)].h
  /\ (running /\ state # "RUNNER_INIT") =>
        /\ InitEntry(runs) # 0
        /\ hooks = log[InitEntry(runs)].h

\* a set bound to one bundle had its before_set issued through another, the
\* bundle the run resolved, after an earlier set of the run was finished
C11_Witness ==
  \E k \in DOMAIN log :
     /\ log[k].ev = "before_set"
     /\ sets[log[k].set].hooks \in Bundles
     /\ sets[log[k].set].hooks # log[k].h
     /\ \E j \in 1..(k - 1) : log[j].ev = "AFTER_SET" /\ log[j].run = log[k].run


\* C12: after the resolution at INIT every unset callback of the active bundle has
\* been back-filled, so that in every later state of the run the bundle, its context
\* and each callback the runner invokes on it are non-null.
C12_BackFilledNonNull ==
  (running /\ state # "RUNNER_INIT" /\ sets_arg # 0) =>
     /\ hooks \in Bundles
     /\ hookTab[hooks].context # NULL
     /\ \A c \in RunnerCallbacks : hookTab[hooks].cb[c] # "null"

\* what the back-filling does establish: the six callbacks it covers are set in
\* the bundle of a run over at least one set
BackFilledSet ==
  (running /\ state # "RUNNER_INIT" /\ sets_arg # 0) =>
     /\ hooks \in Bundles
     /\ \A c \in BackFilled : hookTab[hooks].cb[c] # "null"

\* a run dies in before_set on the NULL context of its bundle
NullContextCrash ==
  state = "CRASH" /\ hooks \in Bundles /\ hookTab[hooks].context = NULL


\* C13: resolution with back-filling is idempotent. Resolving once more, for the
\* same registry and argument, right after runner_init has resolved yields the same
\* bundle and the same callback tables, and runner_init never overwrites a callback
\* that was set before it, by the user or by an earlier back-fill.
C13_ResolveIdempotent ==
  [][(running /\ state = "RUNNER_INIT" /\ state' = "SET_LOOP") =>
       /\ \A b \in Bundles : \A c \in Callbacks :
             hookTab[b].cb[c] # "null" => hookTab'[b].cb[c] = hookTab[b].cb[c]
       /\ LET again == Resolve(sets_arg, [hooks |-> NULL, current |-> current_hooks',
                                          total_sets |-> 0, crashed |-> FALSE,
                                          tab |-> hookTab'])
          IN /\ ~again.crashed
             /\ again.hooks = hooks'
             /\ again.current = current_hooks'
             /\ again.tab = hookTab']_vars

\* the second run of a registry has resolved a bundle that has callbacks of the
\* user and callbacks the first run back-filled
C13_Witness ==
  /\ runs = 2 /\ running /\ state = "SET_LOOP"
  /\ hooks = "junit"
  /\ hookTab["junit"].cb["before_test"] = "default"
  /\ hookTab["junit"].cb["on_test_result"] = "user"
  /\ \E k \in DOMAIN log : log[k].run = 1 /\ log[k].ev = "before_test" /\ log[k].h = "junit"


\* what a registration call gave a case: its function and its expectation flags
Registered(c) ==
  [expect_fail |-> c.expect_fail, expect_throw |-> c.expect_throw, is_fuzz |-> c.is_fuzz,
   fuzz_type |-> c.fuzz_type, test |-> c.test, fuzz |-> c.fuzz]

\* the cases of a set as registered, in list order
CaseList(set) == [i \in DOMAIN set.cases |-> Registered(set.cases[i])]

\* C14: after any sequence of registration calls the count of every set is the
\* length of its case list; a registration of a case adds it to exactly one set, the
\* set that is current (the default set when there was none), at the tail, and leaves
\* every other set's list alone; a run changes neither the counts nor the lists.
C14_CountIsListLength ==
  [][/\ \A s \in DOMAIN sets' : sets'[s].count = Len(sets'[s].cases)
     /\ (TotalCases(sets') # TotalCases(sets)) =>
           /\ TotalCases(sets') = TotalCases(sets) + 1
           /\ current_set' \in DOMAIN sets'
           /\ current_set # 0 => current_set' = current_set
           /\ \A s \in DOMAIN sets \ {current_set'} : CaseList(sets'[s]) = CaseList(sets[s])
           /\ LET old == IF current_set' \in DOMAIN sets
                         THEN CaseList(sets[current_set']) ELSE <<>>
                  new == CaseList(sets'[current_set'])
              IN Len(new) = Len(old) + 1 /\ SubSeq(new, 1, Len(old)) = old
     /\ (running \/ running') =>
           /\ DOMAIN sets' = DOMAIN sets
           /\ \A s \in DOMAIN sets :
                 /\ sets'[s].count = sets[s].count
                 /\ CaseList(sets'[s]) = CaseList(sets[s])]_vars

\* a run of two sets with a case each has returned
C14_Witness ==
  /\ Len(sets) = 2
  /\ \A s \in DOMAIN sets : sets[s].count = 1 /\ Len(sets[s].cases) = 1
  /\ ~running /\ runs >= 1
  /\ \E k \in DOMAIN log : log[k].ev = "RUNNER_DONE"
  /\ \A s \in DOMAIN sets : \E k \in DOMAIN log : log[k].ev = "body" /\ log[k].set = s


\* the sets run r entered, in the order of the history
SetOrder(r) ==
  LET Entered(e) == e.run = r /\ e.ev = "SET_INIT"
      es == SelectSeq(log, Entered)
  IN [i \in DOMAIN es |-> es[i].set]

\* the registry list from its head: the set registered last comes first
ReverseRegistration == [i \in 1..Len(sets) |-> Len(sets) + 1 - i]

\* run_tests was left by a return statement in run r
RunReturned(r) == r < runs \/ (r = runs /\ ~running /\ retval # "none")

\* the registry has a fuzz case whose tag is none of the four known tags
HasUnknownTag ==
  \E s \in DOMAIN sets : \E c \in DOMAIN sets[s].cases :
     sets[s].cases[c].is_fuzz /\ sets[s].cases[c].fuzz_type \notin FuzzTypes

\* C15: testset makes the new set the head of the registry list, and run_tests
\* executes the sets from the head on, in reverse registration order: every set of
\* the registry is entered exactly once in each run, the set registered last first.
C15_SetsInReverseOrder ==
  /\ (Registering /\ sets # <<>>) => current_set = Len(sets)
  /\ running => sets_arg = Len(sets)
  /\ \A r \in 1..runs :
        /\ IsPrefix(SetOrder(r), ReverseRegistration)
        /\ RunReturned(r) => SetOrder(r) = ReverseRegistration

\* the same, for registries without a fuzz case of an unknown tag
SetsInReverseOrderOfKnownTags ==
  /\ (Registering /\ sets # <<>>) => current_set = Len(sets)
  /\ running => sets_arg = Len(sets)
  /\ \A r \in 1..runs :
     /\ IsPrefix(SetOrder(r), ReverseRegistration)
     /\ (RunReturned(r) /\ ~HasUnknownTag) => SetOrder(r) = ReverseRegistration


\* the cases of set s for which run r made the step ev, in the order of the history
CaseOrder(r, s, ev) ==
  LET Step(e) == e.run = r /\ e.set = s /\ e.ev = ev
      es == SelectSeq(log, Step)
  IN [i \in DOMAIN es |-> es[i].case]

\* the cases of set s in registration order
RegistrationOrder(s) == [i \in 1..Len(sets[s].cases) |-> i]

\* run r entered set s
SetEntered(r, s) ==
  \E k \in DOMAIN log : log[k].run = r /\ log[k].set = s /\ log[k].ev = "SET_INIT"

\* C16: within a set the cases are run in registration order, and every registered
\* case of a set the run entered is executed exactly once in that run: the advance
\* of the iterator in TEARDOWN_TEST neither skips a case nor repeats one.
C16_CasesInRegistrationOrder ==
  \A r \in 1..runs : \A s \in DOMAIN sets :
     /\ IsPrefix(CaseOrder(r, s, "CASE_INIT"), RegistrationOrder(s))
     /\ IsPrefix(CaseOrder(r, s, "EXECUTE_TEST"), RegistrationOrder(s))
     /\ IsPrefix(CaseOrder(r, s, "TEARDOWN_TEST"), RegistrationOrder(s))
     /\ (SetEntered(r, s) /\ RunReturned(r)) =>
           CaseOrder(r, s, "EXECUTE_TEST") = RegistrationOrder(s)

\* the same, for registries without a fuzz case of an unknown tag
CasesInRegistrationOrderOfKnownTags ==
  \A r \in 1..runs : \A s \in DOMAIN sets :
     /\ IsPrefix(CaseOrder(r, s, "CASE_INIT"), RegistrationOrder(s))
     /\ IsPrefix(CaseOrder(r, s, "EXECUTE_TEST"), RegistrationOrder(s))
     /\ IsPrefix(CaseOrder(r, s, "TEARDOWN_TEST"), RegistrationOrder(s))
     /\ (SetEntered(r, s) /\ RunReturned(r) /\ ~HasUnknownTag) =>
           CaseOrder(r, s, "EXECUTE_TEST") = RegistrationOrder(s)


\* the history positions of the summaries of the sets
Summaries == {k \in DOMAIN log : log[k].ev \in {"on_set_summary", "default_summary"}}

\* the position at which the set summarised at position k was entered
SetStart(k) ==
  CHOOSE j \in 1..k : /\ log[j].ev = "BEFORE_SET" /\ log[j].run = log[k].run
                      /\ log[j].set = log[k].set

\* the calls of entry point ev with a non-null pointer at positions j..k
CallsIn(ev, j, k) ==
  Cardinality({m \in j..k : log[m].ev = ev /\ log[m].st # NULL})

\* the leak indicator of the summary at position k
LeakIndicator(k) == log[k].total_mallocs - log[k].total_frees

\* C17: when N allocations and N frees are made between a set's before_set and
\* after_set, the leak indicator of that set's summary is 0, and with N allocations
\* and N-1 frees it is 1, for every set of a run and whatever the sets before it
\* allocated or leaked.
C17_LeakIndicatorPerSet ==
  \A k \in Summaries :
     LET N == CallsIn("__wrap_malloc", SetStart(k), k)
         F == CallsIn("__wrap_free", SetStart(k), k)
     IN /\ F = N => LeakIndicator(k) = 0
        /\ F = N - 1 => LeakIndicator(k) = 1

\* what the summary does give: the allocations and frees of the whole process that
\* were folded into the totals up to it
LeakIndicatorCumulative ==
  \A k \in Summaries :
     LeakIndicator(k) = CallsIn("__wrap_malloc", 1, k) - CallsIn("__wrap_free", 1, k)


\* a set that allocated one block and freed it is summarised with indicator 1,
\* the block a set before it leaked
LeakOfEarlierSetReported ==
  \E k \in Summaries :
     /\ CallsIn("__wrap_malloc", SetStart(k), k) = 1
     /\ CallsIn("__wrap_free", SetStart(k), k) = 1
     /\ LeakIndicator(k) = 1


\* the counter and the callback of an allocation entry point
CounterOfCall(ev) == IF ev = "__wrap_malloc" THEN "global_allocs" ELSE "global_frees"
CallbackOfCall(ev) == IF ev = "__wrap_malloc" THEN "on_memory_alloc" ELSE "on_memory_free"

\* C18: a call of an allocation entry point with a non-null pointer (the block
\* malloc returned, the block given to free) adds exactly 1 to its global counter,
\* changes no other counter and forwards the pointer and the context of the active
\* bundle to on_memory_alloc or on_memory_free if and only if the active bundle has
\* that callback; a failed allocation and free(NULL) change no counter and call no
\* hook.  No other step calls these two callbacks.
C18_WrappersCountAndForward ==
  [][LET new == SubSeq(log', Len(log) + 1, Len(log'))
     IN /\ \A i \in DOMAIN new :
              new[i].ev \in {"on_memory_alloc", "on_memory_free"} =>
                 /\ i = 2
                 /\ new[1].ev \in {"__wrap_malloc", "__wrap_free"}
        /\ (new # <<>> /\ new[1].ev \in {"__wrap_malloc", "__wrap_free"}) =>
              LET e == new[1]
                  forwarded == /\ Len(new) = 2
                               /\ new[2].ev = CallbackOfCall(e.ev)
                               /\ new[2].h = current_hooks
                               /\ new[2].st = e.st
              IN /\ Len(new) <= 2
                 /\ e.st # NULL =>
                       /\ mem' = [mem EXCEPT ![CounterOfCall(e.ev)] = @ + 1]
                       /\ forwarded <=>
                             /\ current_hooks # NULL
                             /\ hookTab[current_hooks].cb[CallbackOfCall(e.ev)] # "null"
                 /\ e.st = NULL => (mem' = mem /\ Len(new) = 1)]_vars

\* an allocation was counted and forwarded to the memcheck bundle, another one
\* failed, and free was called with NULL
C18_Witness ==
  /\ \E k \in DOMAIN log :
        /\ log[k].ev = "__wrap_malloc" /\ log[k].st # NULL
        /\ k + 1 \in DOMAIN log
        /\ log[k + 1].ev = "on_memory_alloc" /\ log[k + 1].h = "memcheck"
  /\ \E k \in DOMAIN log : log[k].ev = "__wrap_malloc" /\ log[k].st = NULL
  /\ \E k \in DOMAIN log : log[k].ev = "__wrap_free" /\ log[k].st = NULL
  /\ mem.global_allocs + mem.alloc_count = 1
  /\ mem.global_frees + mem.free_count = 0


\* the outcomes run r reported, as <<set, case, state>> in the order of the history
Outcomes(r) ==
  LET Reported(e) == e.run = r /\ e.ev \in ResultEvs
      es == SelectSeq(log, Reported)
  IN [i \in DOMAIN es |-> <<es[i].set, es[i].case, es[i].st>>]

\* the calls of the allocation entry points in run r, as <<entry point, pointer>>
MemActivity(r) ==
  LET Called(e) == e.run = r /\ e.ev \in {"__wrap_malloc", "__wrap_free"}
      es == SelectSeq(log, Called)
  IN [i \in DOMAIN es |-> <<es[i].ev, es[i].st>>]

\* the positions at which a run returned its exit status
Exits == {k \in DOMAIN log : log[k].ev = "RUNNER_DONE"}

\* the FAIL outcomes reported for set s up to position k
FailsReported(s, k) ==
  Cardinality({j \in 1..k : log[j].ev \in ResultEvs /\ log[j].set = s /\ log[j].st = FAIL})

\* C19: allocation and free activity never changes the exit status.  The value
\* run_tests returns is given by the reported outcomes alone, and two runs of a
\* registry that report the same outcomes return the same value, however their
\* allocations, frees and leaks differ.
C19_ExitStatusIgnoresAllocations ==
  /\ \A k \in Exits :
        log[k].st = IF FailsReported(log[k].set, k) > 0 THEN "EXIT_FAILURE"
                                                        ELSE "EXIT_SUCCESS"
  /\ \A j, k \in Exits :
        Outcomes(log[j].run) = Outcomes(log[k].run) => log[j].st = log[k].st
  /\ Returned => retval = log[CHOOSE k \in Exits : log[k].run = runs].st

\* two runs of a registry reported the same outcomes, a failure among them; the
\* first leaked a block and the second allocated nothing
C19_Witness ==
  /\ Returned /\ runs = 2
  /\ Outcomes(1) = Outcomes(2)
  /\ \E i \in DOMAIN Outcomes(1) : Outcomes(1)[i][3] = FAIL
  /\ MemActivity(1) = <<<<"__wrap_malloc", "block">>>>
  /\ MemActivity(2) = <<>>
  /\ mem.alloc_count = 1 /\ mem.free_count = 0


C21_AllocFailureExits ==
  \A k \in FailedAllocs :
     /\ log[k].st = "exit"
     /\ state = "EXITED"
     /\ k = Len(log)

\* the same for the two calls that do exit: testset and create_testcase
SetAndCaseAllocFailureExits ==
  \A k \in FailedAllocs :
     log[k].ev \in {"testset", "create_testcase"} =>
        /\ log[k].st = "exit"
        /\ state = "EXITED"
        /\ k = Len(log)

\* register_hooks returned after its allocation had failed, and a run was started
RunAfterFailedRegistration ==
  /\ \E k \in FailedAllocs : log[k].ev = "register_hooks" /\ log[k].st = "return"
  /\ runs = 1 /\ hook_registry = <<"default">>


\* the text t occurs in the message m
Contains(m, t) == \E i \in 1..(Len(m) - Len(t) + 1) : SubSeq(m, i, i + Len(t) - 1) = t

\* the statement a history entry of a body reports
StmtOf(e) == CaseOf(e).test[e.arg]

\* the history entries of the areEqual calls on ints
EqualIntStmts ==
  {k \in DOMAIN log : /\ log[k].ev = "stmt"
                      /\ StmtOf(log[k]) \in CallTexts
                      /\ CallOf[StmtOf(log[k])].op = "areEqual"
                      /\ CallOf[StmtOf(log[k])].type = "INT"}

\* the body went on with its next statement after entry k
BodyContinues(k) ==
  /\ k < Len(log) \/ state # "END_TEST"
  /\ k < Len(log) => /\ log[k + 1].ev = "stmt"
                     /\ log[k + 1].arg = log[k].arg + 1
                     /\ log[k + 1].case = log[k].case

\* C22: areEqual(a, b, INT) yields PASS and the body continues when a = b; it
\* yields FAIL with a message that contains the decimal text of both values when
\* a # b.
C22_AreEqualInt ==
  \A k \in EqualIntStmts :
     LET c == CallOf[StmtOf(log[k])]
     IN IF c.expected = c.actual
        THEN log[k].st = PASS /\ BodyContinues(k)
        ELSE /\ log[k].st = FAIL
             /\ Contains(log[k].msg, ToString(c.expected))
             /\ Contains(log[k].msg, ToString(c.actual))
             /\ k < Len(log) /\ log[k + 1].ev = "caught"

\* one run compared 5 with 5 and went on, and compared INT_MIN with -1 and failed
C22_Witness ==
  /\ \E k \in EqualIntStmts :
        /\ CallOf[StmtOf(log[k])].expected = 5 /\ CallOf[StmtOf(log[k])].actual = 5
        /\ log[k].st = PASS /\ k < Len(log) /\ log[k + 1].ev = "stmt"
  /\ \E k \in EqualIntStmts :
        /\ CallOf[StmtOf(log[k])].expected = INT_MIN /\ CallOf[StmtOf(log[k])].actual = -1
        /\ log[k].msg = "Expected -2147483648, but was -1"


\* the switch of the comparison has a case that compares values of this type
Handles(op, type) ==
  \/ op = "areEqual" /\ type \in {"INT", "LONG", "FLOAT", "DOUBLE", "CHAR", "PTR"}
  \/ op = "areNotEqual" /\ type \in {"INT", "FLOAT", "DOUBLE", "CHAR", "PTR"}

\* the history entries of comparisons called with a type they do not handle
UnhandledStmts ==
  {k \in DOMAIN log : /\ log[k].ev = "stmt"
                      /\ StmtOf(log[k]) \in CallTexts
                      /\ ~Handles(CallOf[StmtOf(log[k])].op, CallOf[StmtOf(log[k])].type)}

\* the results reported for the case of entry k in the run of entry k
ResultsOf(k) ==
  {j \in DOMAIN log : /\ log[j].ev \in ResultEvs
                      /\ log[j].run = log[k].run
                      /\ log[j].set = log[k].set
                      /\ log[j].case = log[k].case}

\* C23: a comparison called with a type tag it does not handle makes the current
\* case FAIL with a descriptive non-null message and unwinds to the catch point of
\* the case like any failed assertion; neither the run nor the process ends: the
\* case is reported as failed and run_tests goes on to its return.
C23_UnhandledTypeFails ==
  /\ \A k \in UnhandledStmts :
        /\ log[k].st = FAIL /\ log[k].msg # NULL
        /\ log[k].msg \in {MSG_USE_STRING_EQUAL, MSG_UNSUPPORTED_TYPE}
        /\ k < Len(log) /\ log[k + 1].ev = "caught"
        /\ log[k + 1].case = log[k].case /\ log[k + 1].set = log[k].set
        /\ \A j \in ResultsOf(k) : log[j].st = FAIL /\ log[j].msg = log[k].msg
        /\ (log[k].run < runs \/ Returned) => ResultsOf(k) # {}
  /\ (UnhandledStmts # {} /\ runs = 1) => state \notin {"CRASH", "EXITED"}

\* a run in which a case compared with an unknown tag and the next case still ran
C23_Witness ==
  /\ Returned
  /\ \E k \in UnhandledStmts :
        /\ CallOf[StmtOf(log[k])].type = TYPE_INVALID
        /\ ResultsOf(k) # {}
        /\ \E j \in DOMAIN log : j > k /\ log[j].ev = "stmt" /\ log[j].run = log[k].run


\* the callbacks run_tests issues through the bundle of the run
IssuedCallbacks == {"before_set", "before_test", "on_start_test", "on_end_test",
                    "after_test", "on_test_result", "after_set", "on_set_summary"}

\* C24: whenever the runner issues a hook callback, the logger of the bundle's
\* context is the logger of the set being executed.
C24_LoggerOfRunningSet ==
  \A k \in DOMAIN log :
     log[k].ev \in IssuedCallbacks =>
        /\ log[k].logger # NULL
        /\ log[k].logger = sets[log[k].set].logger

\* a bundle's callbacks were issued for two sets in one run
C24_Witness ==
  \E j, k \in DOMAIN log :
     /\ log[j].ev = "before_test" /\ log[k].ev = "on_test_result"
     /\ log[j].run = log[k].run /\ log[j].set # log[k].set
     /\ log[j].h = log[k].h /\ log[j].h \in UserBundles


\* the callbacks run_tests issues for a case
PerCaseCallbacks == {"before_test", "on_start_test", "on_end_test", "on_test_result",
                     "after_test"}

\* C25: whenever the runner issues a per-case callback, the tc_info of the set
\* refers to the case being executed: not to the case executed before it, and
\* not to an unset value for the first case of a set.
C25_CaseInfoCurrent ==
  \A k \in DOMAIN log :
     log[k].ev \in PerCaseCallbacks => log[k].tc_info = log[k].case

\* on_test_result, and after_test after it, do find the case being executed
CaseInfoCurrentFromResult ==
  \A k \in DOMAIN log :
     log[k].ev \in {"on_test_result", "after_test"} => log[k].tc_info = log[k].case

\* before its result is processed, a case's callbacks find what the case before
\* it left, or what testset left for the first case of the first run
CaseInfoStaleBeforeResult ==
  \A k \in DOMAIN log :
     log[k].ev \in {"before_test", "on_start_test", "on_end_test"} =>
        \/ log[k].tc_info \in {0, WILD} /\ log[k].case = 1 /\ log[k].run = 1
        \/ log[k].tc_info = log[k].case - 1 /\ log[k].case > 1
        \/ log[k].tc_info = Len(sets[log[k].set].cases) /\ log[k].case = 1 /\ log[k].run > 1

\* on_start_test of the second case of a set found the first case in tc_info
StartTestSeesPreviousCase ==
  \E k \in DOMAIN log :
     /\ log[k].ev = "on_start_test" /\ log[k].h = "json"
     /\ log[k].case = 2 /\ log[k].tc_info = 1


\* the successful calls of register_hooks before history entry k
RegisteredBefore(k) ==
  {j \in 1..(k - 1) : log[j].ev = "register_hooks" /\ log[j].msg \notin AllocDiagnostics}

\* those that registered a bundle of this name
RegisteredAs(name, k) == {j \in RegisteredBefore(k) : hookTab[log[j].h].name = name}

\* the greatest element of a nonempty set of numbers
Last(S) == CHOOSE j \in S : \A i \in S : i <= j

\* C26: init_hooks(name) returns the most recently registered bundle of that name,
\* and the first bundle of the registry is the most recently registered one (the
\* default bundle, registered at startup, when nothing else was registered).
C26_LastRegisteredWins ==
  /\ \A k \in Lookups :
        log[k].arg \notin {NULL, ""} =>
           IF RegisteredAs(log[k].arg, k) # {}
           THEN log[k].h = log[Last(RegisteredAs(log[k].arg, k))].h
           ELSE IF log[k].arg = "default"
           THEN log[k].h = "default"
           ELSE log[k].h \in FreshBundles \cup {NULL}
  /\ hook_registry # <<>>
  /\ Head(hook_registry) = IF RegisteredBefore(Len(log) + 1) = {} THEN "default"
                           ELSE log[Last(RegisteredBefore(Len(log) + 1))].h

\* two bundles of the name "mine" are registered, and a lookup of the name returned
\* the second of them
C26_Witness ==
  \E k \in Lookups :
     /\ log[k].arg = "mine"
     /\ Cardinality(RegisteredAs("mine", k)) = 2
     /\ {log[j].h : j \in RegisteredAs("mine", k)} = NamedBundles \cup FreshBundles
     /\ log[k].h = "named"


\* the successful allocations and the non-null frees made so far
Allocations == Cardinality({k \in DOMAIN log : log[k].ev = "__wrap_malloc" /\ log[k].st # NULL})
Frees == Cardinality({k \in DOMAIN log : log[k].ev = "__wrap_free" /\ log[k].st # NULL})

\* C27: the folded totals plus the pending atomic counters equal the number of
\* successful allocations and of non-null frees made so far, whenever the runner
\* is not inside its fold-and-reset, for every interleaving of allocations and
\* frees made beside the runner with that fold-and-reset.
C27_NoLostUpdate ==
  state \notin FoldStates =>
     /\ mem.alloc_count + mem.global_allocs = Allocations
     /\ mem.free_count + mem.global_frees = Frees

\* an allocation made between the load and the store of the fold is dropped
AllocationLostInFold ==
  /\ state = "CASE_LOOP"
  /\ Allocations = 1 /\ Frees = 0
  /\ mem.alloc_count = 0 /\ mem.global_allocs = 0


\* the states of run_tests from BEFORE_TEST to AFTER_TEST
CaseStates == {"BEFORE_TEST", "SETUP_TEST", "START_TEST", "EXECUTE_TEST", "FUZZING_INIT",
               "END_TEST", "TEARDOWN_TEST", "AFTER_TEST"}

\* every case but case c of set s has the same result before and after the step
OthersUnchanged(s, c) ==
  \A s2 \in DOMAIN sets : \A c2 \in DOMAIN sets[s2].cases :
     <<s2, c2>> # <<s, c>> => sets'[s2].cases[c2].result = sets[s2].cases[c2].result

\* C28: in every state from BEFORE_TEST to AFTER_TEST the current case of the
\* current set is the case being iterated, and the results a body writes change
\* the result of that case only.
C28_OneCurrentCase ==
  [][ /\ (running' /\ state' \in CaseStates) =>
            /\ current_set' # 0 /\ tc' # 0
            /\ sets'[current_set'].current = tc'
      /\ (running /\ state \in {"EXECUTE_TEST", "FUZZING_INIT"}) =>
            /\ DOMAIN sets' = DOMAIN sets
            /\ OthersUnchanged(current_set, tc) ]_vars

\* the body of the second case of a set failed while the first case holds PASS
C28_Witness ==
  /\ running /\ state = "END_TEST" /\ tc = 2
  /\ sets[current_set].current = 2
  /\ sets[current_set].cases[2].result.state = FAIL
  /\ sets[current_set].cases[1].result.state = PASS
  /\ ~sets[current_set].cases[2].is_fuzz


\* the dataset selections of cases with a tag of the FuzzType enum
FuzzInits ==
  {k \in DOMAIN log : /\ log[k].ev = "FUZZING_INIT"
                      /\ CaseOf(log[k]).fuzz_type \in FuzzTypes}

\* the values the body of the case of entry k was called with after entry k, up to
\* the next selection
ValuesFrom(k) ==
  {Dataset(CaseOf(log[k]).fuzz_type)[log[j].arg] :
      j \in {i \in (k + 1)..Len(log) :
               /\ log[i].ev = "fuzz_body"
               /\ \A m \in (k + 1)..i : log[m].ev # "FUZZING_INIT"}}

\* all values of the byte type
ByteValues == SCHAR_MIN..SCHAR_MAX

\* C29: the dataset of a fuzz case is a fixed literal chosen by the tag of the
\* case alone, and for a case tagged byte the body is executed once for every
\* value of the byte type.
C29_ByteDatasetFullRange ==
  \A k \in FuzzInits :
     LET type == CaseOf(log[k]).fuzz_type
     IN /\ log[k].arg = Len(Dataset(type))
        /\ ValuesFrom(k) = {Dataset(type)[i] : i \in 1..Len(Dataset(type))}
        /\ type = "FUZZ_BYTE" => ValuesFrom(k) = ByteValues

\* the dataset is chosen by the tag alone, and the body is called with each of its
\* values
DatasetByTagAlone ==
  \A k \in FuzzInits :
     LET type == CaseOf(log[k]).fuzz_type
     IN /\ log[k].arg = Len(Dataset(type))
        /\ ValuesFrom(k) = {Dataset(type)[i] : i \in 1..Len(Dataset(type))}

\* a byte case was run on the five boundary values only
ByteCaseRunOnFiveValues ==
  \E k \in FuzzInits :
     /\ CaseOf(log[k]).fuzz_type = "FUZZ_BYTE"
     /\ ValuesFrom(k) = {SCHAR_MIN, -1, 0, 1, SCHAR_MAX}
     /\ 2 \notin ValuesFrom(k)


\* tracking is enabled inside a set
Tracking == mem.ctx.enabled = 1 /\ mem.ctx.set # 0

\* the call of before_set that started the ledger of the set (0 when there is none)
LedgerStart ==
  IF \E k \in DOMAIN log : log[k].ev = "before_set" /\ log[k].h \in MemBundles
  THEN Last({k \in DOMAIN log : log[k].ev = "before_set" /\ log[k].h \in MemBundles})
  ELSE 0

\* the allocations made since then whose block was not freed since, as positions
\* of the history
TrackedLive ==
  {k \in (LedgerStart + 1)..Len(log) :
     /\ log[k].ev = "__wrap_malloc" /\ log[k].st # NULL
     /\ \A j \in (k + 1)..Len(log) :
           ~(log[j].ev = "__wrap_free" /\ log[j].st = log[k].st)}

\* the records the ledger holds
Held == {i \in 1..mem.ctx.count : TRUE}

RECURSIVE SumOfSizes(_)
SumOfSizes(S) ==
  IF S = {} THEN 0
  ELSE LET i == CHOOSE i \in S : TRUE
       IN mem.ctx.leaks[i].size + SumOfSizes(S \ {i})

\* C30: while tracking is enabled inside a set, the ledger holds exactly one record
\* for each pointer allocated and not yet freed, with the size of its allocation,
\* and current_bytes is the sum of the sizes of the records held.
C30_LedgerExact ==
  Tracking =>
     /\ mem.ctx.count <= Len(mem.ctx.leaks)
     /\ \A i, j \in Held : mem.ctx.leaks[i].ptr = mem.ctx.leaks[j].ptr => i = j
     /\ {[ptr |-> mem.ctx.leaks[i].ptr, size |-> mem.ctx.leaks[i].size] : i \in Held}
          = {[ptr |-> log[k].st, size |-> log[k].arg] : k \in TrackedLive}
     /\ mem.ctx.current_bytes = SumOfSizes(Held)

\* two blocks were recorded and the first was freed: the record of the second was
\* moved into its slot
C30_Witness ==
  /\ Tracking
  /\ mem.ctx.count = 1 /\ Len(mem.ctx.leaks) = 2
  /\ mem.ctx.leaks[1].ptr = "p2" /\ mem.ctx.leaks[1].size = 16
  /\ mem.ctx.current_bytes = 16 /\ mem.ctx.peak_bytes = 116
  /\ Live = {"p2"}

\* an allocated block was recorded and a block allocated before the run was
\* freed: the ledger kept its record
UntrackedFreeRemovesNothing ==
  /\ Tracking
  /\ \E k \in DOMAIN log : k > LedgerStart /\ log[k].ev = "__wrap_free" /\ log[k].st = Old
  /\ mem.ctx.count = 1 /\ Cardinality(TrackedLive) = 1


\* run_tests was entered with a registry of at least one set
Started == running /\ state = "RUNNER_INIT" /\ sets_arg # 0

\* the cases of the current set that are still to be executed
Remaining == IF current_tc_iter = 0 THEN 0
             ELSE Len(sets[current_set].cases) + 1 - current_tc_iter

\* C31: when run_tests is entered with a registry of at least one set and every
\* body, setup, teardown, cleanup and callback returns, the runner eventually
\* reaches DONE.
C31_RunReachesDone == Started ~> (state = "RUNNER_DONE")

\* a run of a registry without a fuzz case of an unknown tag reaches DONE, unless
\* the process dies on a hooks pointer of a set that was never written
KnownTagsReachDone ==
  (Started /\ ~HasUnknownTag) ~> (state \in {"RUNNER_DONE", "CRASH"})

\* each pass of the case loop consumes one case, each pass of the set loop one set
PassConsumes ==
  [][/\ (state = "TEARDOWN_TEST" /\ state' = "AFTER_TEST") => Remaining' = Remaining - 1
     /\ (state = "AFTER_SET" /\ state' = "SET_LOOP") =>
            current_set_iter' = current_set_iter - 1
     /\ (running /\ running' /\ ~(state = "TEARDOWN_TEST" /\ state' = "AFTER_TEST")
           /\ state' # "CASE_LOOP" /\ state # "BEFORE_SET") =>
            (state = state' \/ current_tc_iter' = current_tc_iter)]_vars

\* run_tests has returned from FUZZING_INIT: the runner never reaches DONE
ReturnedFromFuzzingInit ==
  ~running /\ state = "FUZZING_INIT" /\ retval = "END_TEST"


\* the cases run r has begun to execute, each with its set
Executed(r) ==
  {<<log[k].set, log[k].case>> :
      k \in {j \in DOMAIN log : log[j].ev = "EXECUTE_TEST" /\ log[j].run = r}}

\* the history entries that report the result of case c of set s in run r
ResultsOfCase(r, s, c) ==
  {k \in DOMAIN log : /\ log[k].ev \in ResultEvs /\ log[k].run = r
                       /\ log[k].set = s /\ log[k].case = c}

\* every case the runner is done with was reported once, in its final state
ReportedOnce ==
  \A r \in 1..runs : \A e \in Executed(r) :
     ~Current(r, e[1], e[2]) =>
        /\ Cardinality(ResultsOfCase(r, e[1], e[2])) = 1
        /\ r = runs => \A k \in ResultsOfCase(r, e[1], e[2]) :
                           log[k].st = sets[e[1]].cases[e[2]].result.state

\* the per-set summaries are those of the cases the set reported in its run
SummaryOfSet ==
  \A k \in Summaries :
     /\ log[k].tc_passed + log[k].tc_failed + log[k].tc_skipped = log[k].tc_total
     /\ log[k].tc_total = Len(sets[log[k].set].cases)
     /\ log[k].tc_passed = ResultCount(log[k].run, log[k].set, PASS)
     /\ log[k].tc_failed = ResultCount(log[k].run, log[k].set, FAIL)
     /\ log[k].tc_skipped = ResultCount(log[k].run, log[k].set, SKIP)

\* C32: every executed case is reported once (on_test_result or the default
\* result line) and increments exactly the counter of its final state; the
\* summary handed over at AFTER_SET has tc_passed + tc_failed + tc_skipped =
\* tc_total = the number of cases of the set, counted from SET_INIT on.
C32_OneCounterPerCase ==
  /\ ReportedOnce
  /\ CountedAsReported
  /\ InSet => counters.tc_total =
                 counters.tc_passed + counters.tc_failed + counters.tc_skipped
  /\ SummaryOfSet

\* the same, for registries without a fuzz case of an unknown tag
OneCounterPerCaseOfKnownTags == ~HasUnknownTag => C32_OneCounterPerCase

\* the counters and the summaries are right for every case that was reported
CountersOfReportedCases ==
  /\ CountedAsReported
  /\ SummaryOfSet
  /\ \A r \in 1..runs : \A e \in Executed(r) :
         Cardinality(ResultsOfCase(r, e[1], e[2])) <= 1

\* a fuzz case was given the state FAIL, run_tests has returned, and neither was
\* the case reported nor a counter incremented
FailedCaseNeverCounted ==
  /\ ReturnedFromFuzzingInit
  /\ sets[current_set].cases[tc].result.state = FAIL
  /\ ResultsOfCase(runs, current_set, tc) = {}
  /\ counters.tc_failed = ResultCount(runs, current_set, FAIL)


\* the history entries of run r about set s whose call is one of evs
SetCalls(r, s, evs) ==
  {k \in DOMAIN log : log[k].run = r /\ log[k].set = s /\ log[k].ev \in evs}

\* the history entries of run r about the cases of set s
CaseCalls(r, s) ==
  {k \in DOMAIN log : log[k].run = r /\ log[k].set = s /\ log[k].case # 0}

\* every entry of K comes before every entry of L
Before(K, L) == \A k \in K : \A l \in L : k < l

\* the calls that frame set s in run r: before_set (or the default header), then
\* the cases, then after_set, the summary and the cleanup function; done tells
\* whether the run is over
Framed(r, s, done) ==
  LET B  == SetCalls(r, s, {"before_set", "default_header"})
      A  == SetCalls(r, s, {"after_set"})
      S  == SetCalls(r, s, {"on_set_summary", "default_summary"})
      Cl == SetCalls(r, s, {"cleanup"})
      h  == log[InitEntry(r)].h
      n(K, due) == IF done THEN Cardinality(K) = (IF due THEN 1 ELSE 0)
                           ELSE Cardinality(K) <= (IF due THEN 1 ELSE 0)
  IN /\ n(B, TRUE) /\ n(A, Has(h, "after_set")) /\ n(S, TRUE) /\ n(Cl, sets[s].cleanup)
     /\ Before(B, CaseCalls(r, s) \cup A \cup S \cup Cl)
     /\ Before(CaseCalls(r, s), A \cup S \cup Cl)
     /\ Before(A, S \cup Cl)
     /\ Before(S, Cl)

\* C33: for every set of the registry, also one without cases, a run calls
\* before_set once before any call about the set's cases, and after the cases
\* after_set, then the per-set summary, then the set's cleanup function, each
\* once.
C33_SetFramedOnce ==
  \A r \in 1..runs : InitEntry(r) # 0 =>
     \A s \in DOMAIN sets : Framed(r, s, RunReturned(r))

\* the same, for registries without a fuzz case of an unknown tag
SetFramedOnceOfKnownTags == ~HasUnknownTag => C33_SetFramedOnce

\* a set without cases was framed by the callbacks of a registered bundle and
\* its cleanup function was called
EmptySetFramed ==
  \E s \in DOMAIN sets :
     /\ sets[s].cases = <<>> /\ sets[s].cleanup
     /\ RunReturned(1) /\ InitEntry(1) # 0
     /\ SetCalls(1, s, {"before_set"}) # {} /\ SetCalls(1, s, {"after_set"}) # {}
     /\ SetCalls(1, s, {"on_set_summary"}) # {} /\ SetCalls(1, s, {"cleanup"}) # {}

\* run_tests has returned without the summary and the cleanup of the set it was
\* in, and without having entered another set of the registry
SetLeftOpen ==
  /\ ReturnedFromFuzzingInit
  /\ sets[current_set].cleanup
  /\ SetCalls(runs, current_set, {"on_set_summary", "default_summary", "cleanup"}) = {}
  /\ \E s \in DOMAIN sets : SetCalls(runs, s, {"before_set", "default_header"}) = {}


\* the history entries that report case c of set s in two different runs
ReportedTwice(s, c) ==
  {p \in (DOMAIN log) \X (DOMAIN log) :
      /\ log[p[1]].ev \in ResultEvs /\ log[p[2]].ev \in ResultEvs
      /\ log[p[1]].set = s /\ log[p[2]].set = s
      /\ log[p[1]].case = c /\ log[p[2]].case = c
      /\ log[p[1]].run < log[p[2]].run}

\* C34: runs of one registry do not collide: a case is reported in the same final
\* state in a later run as in an earlier run, the result an earlier run left in
\* the case does not influence the later one.
C34_RunsIndependent ==
  \A s \in DOMAIN sets : \A c \in DOMAIN sets[s].cases :
     \A p \in ReportedTwice(s, c) : log[p[1]].st = log[p[2]].st

\* the same, for the cases without an expectation flag and for the bodies that
\* make an assertion
RunsIndependentOfAssertingBodies ==
  \A s \in DOMAIN sets : \A c \in DOMAIN sets[s].cases :
     (sets[s].cases[c].test # <<>>
        \/ ~(sets[s].cases[c].expect_fail \/ sets[s].cases[c].expect_throw)) =>
           \A p \in ReportedTwice(s, c) : log[p[1]].st = log[p[2]].st

\* a case expected to fail whose body makes no assertion was reported FAIL in
\* the first run and PASS in the second
StaleResultInverted ==
  \E s \in DOMAIN sets : \E c \in DOMAIN sets[s].cases :
     /\ sets[s].cases[c].test = <<>> /\ sets[s].cases[c].expect_fail
     /\ \E p \in ReportedTwice(s, c) :
           /\ log[p[1]].st = FAIL /\ log[p[1]].msg = MSG_EXPECT_FAIL_PASSED
           /\ log[p[2]].st = PASS /\ log[p[2]].msg = MSG_EXPECT_FAIL_OCCURRED


\* the set's own counters are those of the cases it reported in the current run
OwnCountersOfRun(set) ==
  /\ sets[set].passed + sets[set].failed + sets[set].skipped = sets[set].count
  /\ sets[set].passed = ResultCount(runs, set, PASS)
  /\ sets[set].failed = ResultCount(runs, set, FAIL)
  /\ sets[set].skipped = ResultCount(runs, set, SKIP)

\* C35: when a set reaches AFTER_SET, in any run, its own counters satisfy
\* passed + failed + skipped = count and are the numbers of its cases that ended
\* PASS, FAIL and SKIP in that run.
C35_OwnCountersPerRun ==
  (running /\ state = "AFTER_SET") => OwnCountersOfRun(current_set)

\* the same, in the first run of a registry
OwnCountersOfFirstRun ==
  (running /\ state = "AFTER_SET" /\ runs = 1) => OwnCountersOfRun(current_set)

\* the set's own counters hold the results of every run so far
OwnCountersAccumulate ==
  (running /\ state = "AFTER_SET") =>
     /\ sets[current_set].passed =
           ResultCount(1, current_set, PASS) + ResultCount(2, current_set, PASS)
     /\ sets[current_set].failed =
           ResultCount(1, current_set, FAIL) + ResultCount(2, current_set, FAIL)
     /\ sets[current_set].skipped =
           ResultCount(1, current_set, SKIP) + ResultCount(2, current_set, SKIP)

\* a set of one passing case reaches AFTER_SET in the second run with passed = 2
SecondRunCountsTwice ==
  /\ running /\ state = "AFTER_SET" /\ runs = 2
  /\ sets[current_set].count = 1 /\ sets[current_set].passed = 2
  /\ counters.tc_passed = 1


\* the history entries of the jumps set_test_context made
JumpEntries == {k \in DOMAIN log : log[k].ev \in {"caught", "longjmp"}}

\* the jump at position k was made by the body of a case or by a fuzz iteration,
\* whose catch point was set when it was called
InBody(k) ==
  \E j \in 1..(k - 1) :
     /\ log[j].ev \in {"body", "fuzz_body"}
     /\ log[j].run = log[k].run /\ log[j].set = log[k].set /\ log[j].case = log[k].case
     /\ \A m \in (j + 1)..(k - 1) : log[m].ev = "stmt"

\* C36: set_test_context jumps only while the body of a case or a fuzz iteration
\* is executing: an assertion that fails in a setup function does not jump to a
\* catch point that was never set or whose function has returned.
C36_JumpOnlyInBody == \A k \in JumpEntries : InBody(k)

\* the jumps made by the bodies of the cases arrive at a live catch point
BodyJumpsCaught ==
  \A k \in DOMAIN log : log[k].ev = "caught" => InBody(k)

\* the setup function of the first case of the first run has failed an
\* assertion: longjmp was called with a jmpbuffer setjmp had never filled
JumpNeverEstablished ==
  \E k \in JumpEntries : log[k].ev = "longjmp" /\ log[k].st = "none"

\* the setup function of a later case has failed an assertion: longjmp was called
\* with the catch point of the case before it, whose execute_test has returned
JumpToReturnedFrame ==
  \E k \in JumpEntries :
     /\ log[k].ev = "longjmp" /\ log[k].st = "execute_test"
     /\ (jmpbuffer.set # log[k].set \/ jmpbuffer.case # log[k].case)


\* the handlers and calls of run r, in the order of the history
RunTrace(r) ==
  LET OfRun(e) == e.run = r
      es == SelectSeq(log, OfRun)
  IN [i \in DOMAIN es |-> es[i].ev]

\* C37: a run of an empty registry goes through INIT, SET_LOOP, SUMMARY and DONE
\* without any call for a set, a case or a hook and without reading a set, and
\* returns 0.
C37_EmptyRegistryRun ==
  (runs >= 1 /\ sets = <<>>) =>
     /\ state # "CRASH"
     /\ \A r \in 1..runs :
           IsPrefix(RunTrace(r),
                    <<"RUNNER_INIT", "SET_LOOP", "RUNNER_SUMMARY", "RUNNER_DONE">>)
     /\ (~running) => retval = "EXIT_SUCCESS"

\* up to SUMMARY the run of an empty registry is as claimed
EmptyRegistryUpToSummary ==
  (runs >= 1 /\ sets = <<>>) =>
     /\ IsPrefix(RunTrace(1), <<"RUNNER_INIT", "SET_LOOP">>)
     /\ hooks = NULL
     /\ state \in {"RUNNER_INIT", "SET_LOOP", "RUNNER_SUMMARY", "CRASH"}

\* the run of an empty registry has died in SUMMARY, where runner_summary reads
\* the name and the counters of the set it is given
EmptyRegistryCrash ==
  /\ sets = <<>> /\ runs = 1 /\ state = "CRASH" /\ retval = "none"
  /\ RunTrace(1) = <<"RUNNER_INIT", "SET_LOOP">>


\* the history entries of FUZZING_INIT for a fuzz case of an unknown tag
UnknownTagInits ==
  {k \in DOMAIN log : /\ log[k].ev = "FUZZING_INIT"
                       /\ CaseOf(log[k]).fuzz_type \notin FuzzTypes}

\* the runner has left the loop of run_tests
LoopLeft == runs >= 1 /\ ~running /\ state # "CRASH"

\* C38: a fuzz case whose tag is none of the four known tags is recorded FAIL with
\* the message "Invalid FuzzType in fuzz test" and the runner goes on with
\* END_TEST; the run ends in DONE and returns the exit status.
C38_UnknownTagContinues ==
  /\ \A k \in UnknownTagInits :
        IF k = Len(log)
        THEN /\ running /\ state = "END_TEST"
             /\ sets[current_set].cases[tc].result =
                   [state |-> FAIL, message |-> MSG_INVALID_FUZZ]
        ELSE log[k + 1].ev = "END_TEST" /\ log[k + 1].run = log[k].run
  /\ LoopLeft => /\ state = "RUNNER_DONE"
                 /\ retval \in {"EXIT_SUCCESS", "EXIT_FAILURE"}

\* the case is given the state FAIL and the message, whatever follows
UnknownTagRecordedFail ==
  \A k \in UnknownTagInits :
     k = Len(log) =>
        sets[log[k].set].cases[log[k].case].result =
           [state |-> FAIL, message |-> MSG_INVALID_FUZZ]

\* run_tests has returned the state END_TEST as its value, with a set of the
\* registry that was not entered
ReturnedStateNotStatus ==
  /\ ReturnedFromFuzzingInit
  /\ UnknownTagInits # {}
  /\ \E s \in DOMAIN sets : SetCalls(runs, s, {"SET_INIT"}) = {}


\* the types areEqual and areNotEqual are said to compare
ComparedTypes == {"INT", "LONG", "FLOAT", "DOUBLE", "CHAR", "PTR"}

\* the history entries of the comparisons op made on values of these types
CompareStmts(op, types) ==
  {k \in DOMAIN log : /\ log[k].ev = "stmt"
                      /\ StmtOf(log[k]) \in CallTexts
                      /\ CallOf[StmtOf(log[k])].op = op
                      /\ CallOf[StmtOf(log[k])].type \in types}

\* entries j and k compare the same values as the same type
SameOperands(j, k) ==
  /\ CallOf[StmtOf(log[j])].expected = CallOf[StmtOf(log[k])].expected
  /\ CallOf[StmtOf(log[j])].actual = CallOf[StmtOf(log[k])].actual
  /\ CallOf[StmtOf(log[j])].type = CallOf[StmtOf(log[k])].type

\* of areEqual and areNotEqual on the same values of one of these types,
\* exactly one yields PASS
Complementary(types) ==
  \A j \in CompareStmts("areEqual", types), k \in CompareStmts("areNotEqual", types) :
     SameOperands(j, k) => ((log[j].st = PASS) # (log[k].st = PASS))

\* C39: for every pair of values of type INT, LONG, FLOAT, DOUBLE, CHAR or PTR,
\* exactly one of areEqual and areNotEqual yields PASS.
C39_Complementary == Complementary(ComparedTypes)

\* on INT, CHAR and PTR the two comparisons are complementary
ComplementaryOnExactTypes == Complementary({"INT", "CHAR", "PTR"})

\* on FLOAT and DOUBLE they are complementary for values that are not a NaN
ComplementaryOnNumbers ==
  \A j \in CompareStmts("areEqual", {"FLOAT", "DOUBLE"}),
     k \in CompareStmts("areNotEqual", {"FLOAT", "DOUBLE"}) :
     (/\ SameOperands(j, k)
      /\ Fabs(CallOf[StmtOf(log[j])].expected, CallOf[StmtOf(log[j])].actual) # NAN)
     => ((log[j].st = PASS) # (log[k].st = PASS))

\* on LONG, areNotEqual never passes
NotEqualLongFails ==
  \A k \in CompareStmts("areNotEqual", {"LONG"}) :
     log[k].st = FAIL /\ log[k].msg = MSG_UNSUPPORTED_TYPE

\* two different longs: areEqual failed and areNotEqual failed as well
NeitherPassesOnLong ==
  \E j \in CompareStmts("areEqual", {"LONG"}), k \in CompareStmts("areNotEqual", {"LONG"}) :
     /\ SameOperands(j, k)
     /\ CallOf[StmtOf(log[j])].expected = 5 /\ CallOf[StmtOf(log[j])].actual = 6
     /\ log[j].st = FAIL /\ log[k].st = FAIL

\* a NaN: areEqual passed and areNotEqual passed as well
BothPassOnNaN ==
  \E j \in CompareStmts("areEqual", {"FLOAT", "DOUBLE"}),
     k \in CompareStmts("areNotEqual", {"FLOAT", "DOUBLE"}) :
     /\ SameOperands(j, k)
     /\ CallOf[StmtOf(log[j])].actual = NAN
     /\ log[j].st = PASS /\ log[k].st = PASS


\* the history entries that report a sequence number: the default header and
\* the per-set summary (the sequence field handed to on_set_summary, or the
\* default summary line)
SequenceReports ==
  {k \in DOMAIN log : log[k].ev \in {"default_header", "on_set_summary", "default_summary"}}

\* the set reported at position k is the n-th set its run executes
Ordinal(k) ==
  Cardinality({j \in 1..k : log[j].ev = "SET_INIT" /\ log[j].run = log[k].run})

\* C40: the sequence number reported for a set numbers the sets of a run
\* consecutively from 1: the k-th set executed is reported with number k.
C40_SequenceFromOne == \A k \in SequenceReports : log[k].arg = Ordinal(k)

\* the numbers are consecutive, but the k-th set is reported with k + 1
SequenceFromTwo == \A k \in SequenceReports : log[k].arg = Ordinal(k) + 1

\* the header and the summary of a set report the same number
HeaderAndSummaryAgree ==
  \A j, k \in SequenceReports :
     (log[j].run = log[k].run /\ log[j].set = log[k].set) => log[j].arg = log[k].arg

\* the first set of a run has been reported with 2, in its header and its summary
FirstSetReportedAsTwo ==
  \E j, k \in SequenceReports :
     /\ log[j].ev = "default_header" /\ log[k].ev = "default_summary"
     /\ log[j].run = log[k].run /\ log[j].set = log[k].set
     /\ Ordinal(j) = 1 /\ log[j].arg = 2 /\ log[k].arg = 2

====
